---- MODULE Spec2Model ----
(***************************************************************************)
(* State-machine model of the query-builder rule/group tree: the Node /    *)
(* Group / Rule classes of src/src/model.js and the builder operations of  *)
(* src/unnamed/part_001 and src/src/public.js that mutate the tree.        *)
(*                                                                         *)
(* Every operation runs to completion in one step (the code is             *)
(* single-threaded and synchronous).  The variable "events" holds, in      *)
(* order, the notifications published by the last operation; each record   *)
(* carries a snapshot of what a subscriber would see at delivery time.     *)
(* The rendered element of a node is an opaque handle and is not modelled. *)
(*                                                                         *)
(* Specifications:                                                         *)
(*   Spec         the builder and its tree under every operation;          *)
(*   IdSpec       the builder's operations that draw or reset identifiers, *)
(*                with the history of the identifiers issued;              *)
(*   EmitterSpec  one EventEmitter under on, off and emit;                 *)
(*   FlagsSpec    one call of parseRuleFlags / parseGroupFlags on any      *)
(*                configured defaults and raw rule or group, then one of   *)
(*                getRuleFlags / getGroupFlags on the parsed flags;        *)
(*   RegSpec      one lookup (getOperators, getFilterById or               *)
(*                getOperatorByType) in a registry of filters/operators;   *)
(*   CheckSpec    one call of checkFilters or checkOperators on a list;    *)
(*   ValidateSpec one call of validateValue or _validateValue on a rule    *)
(*                and a value;                                             *)
(*   OnceSpec     the builder's element under once() and trigger();        *)
(*   EditSpec     a builder whose tree is built, edited through the change *)
(*                handlers, validated, exported and imported.              *)
(***************************************************************************)
EXTENDS Integers, Sequences, FiniteSets, TLC

\* ---- bounds ----
MaxNodes == 3
MaxIndex == 2
\* most registrations kept for one event of an EventEmitter
MaxRegs == 3
\* most operators registered in a builder, longest allow-list of a filter
MaxOps == 3
MaxAllow == 2
\* longest list of filters or of operators given to the configuration checks
MaxList == 2
\* most callbacks registered with once() on a builder
MaxOnce == 4

\* ---- values ----
Null == 0
Nodes == 1..MaxNodes
Undefined == "undefined"
\* the emitters that are not nodes: the builder's element and its Model
Element == -1
TheModel == -2
NoFlags == [k \in {} |-> FALSE]
\* the (data, flags) arguments given to the builder's add operations
NodeArgs == {[data |-> Undefined, flags |-> NoFlags],
             [data |-> "d", flags |-> [no_delete |-> TRUE]]}
IndexArgs == {<<>>} \cup {<<i>> : i \in (-1)..MaxIndex}

\* builder settings (configuration supplied by the caller)
default_rule_flags == [no_delete |-> FALSE]
default_group_flags == [no_delete |-> FALSE, condition_readonly |-> FALSE]
default_condition == "AND"
\* settings.default_filter is unset and settings.display_empty_filter is off:
\* a new rule gets the first configured filter, this.filters[0].id
default_filter == "null"
display_empty_filter == FALSE
first_filter == "f1"

VARIABLES kind, parent, level, rules, flags, data, condition, filter, error,
          root, group_id, rule_id, events, lastOp,
          model, issued, history, io,
          listeners, calls, emOp, el,
          pf, reg, chk, vv

tree == <<kind, parent, level, rules, flags, data, condition, filter, error>>
\* the builder and its tree
builder == <<kind, parent, level, rules, flags, data, condition, filter, error,
             root, group_id, rule_id, events, lastOp, model, issued, history, io>>
\* one EventEmitter taken on its own: its table of listeners, the calls made
\* by its last emit, and the last method called on it; el is the builder's
\* element as an event target: the callbacks registered with once() for one
\* event type and the number of times each has been invoked
emitter == <<listeners, calls, emOp, el>>
\* pf: one call of parseRuleFlags / parseGroupFlags, its arguments and result
\* reg: the registered filters and operators, and one lookup made in them
\* chk: one call of checkFilters / checkOperators on a supplied list
\* vv: one call of validateValue / _validateValue on a rule and a value
vars == <<kind, parent, level, rules, flags, data, condition, filter, error,
          root, group_id, rule_id, events, lastOp, model, issued, history, io,
          listeners, calls, emOp, el, pf, reg, chk, vv>>
\* the variables that hold one call of a function on arguments drawn at the
\* start of the behaviour
pure == <<pf, reg, chk, vv>>

\* ---- helpers on sequences ----
Min(a, b) == IF a < b THEN a ELSE b
Max(a, b) == IF a > b THEN a ELSE b

\* Array.prototype.indexOf, 0-based, -1 when absent
IndexOf(seq, x) ==
    IF \E i \in 1..Len(seq) : seq[i] = x
    THEN (CHOOSE i \in 1..Len(seq) : seq[i] = x /\ \A j \in 1..(i - 1) : seq[j] # x) - 1
    ELSE -1

\* Array.prototype.splice(index, 1)
SpliceOut(seq, index) ==
    SubSeq(seq, 1, index) \o SubSeq(seq, index + 2, Len(seq))

\* Array.prototype.splice(index, 0, x): a negative index counts from the end,
\* and the start position is clamped to [0, length]
SpliceIn(seq, index, x) ==
    LET start == IF index < 0 THEN Max(Len(seq) + index, 0) ELSE Min(index, Len(seq))
    IN SubSeq(seq, 1, start) \o <<x>> \o SubSeq(seq, start + 1, Len(seq))

\* Array.prototype.slice().reverse()
Reverse(seq) == [i \in 1..Len(seq) |-> seq[Len(seq) + 1 - i]]

\* Object.assign({}, defaults, given)
Assign(defaults, given) ==
    [k \in (DOMAIN defaults) \cup (DOMAIN given) |->
        IF k \in DOMAIN given THEN given[k] ELSE defaults[k]]

\* ---- the program state as one record, threaded through the operations ----
\* io: the arguments and results of the last validate / getRules / setRules
\* / updateRuleFilter call.  An exported or imported object is held as the
\* sequence of the groups it describes: <<>> for the object {}.
NoIo == [valid |-> TRUE, allow_invalid |-> FALSE, out |-> <<>>, given |-> <<>>,
         from_export |-> FALSE, prev |-> "null"]

Cur == [kind |-> kind, parent |-> parent, level |-> level, rules |-> rules,
        flags |-> flags, data |-> data, condition |-> condition,
        filter |-> filter, error |-> error, root |-> root, group_id |-> group_id, rule_id |-> rule_id,
        model |-> model, issued |-> issued, reuse |-> FALSE, io |-> NoIo,
        events |-> <<>>, err |-> "", ret |-> Null, res |-> "undefined"]

\* "on" is the object the notification is published on: a node (its own
\* EventEmitter), the Model, or the builder's element
Ev(on, type, node, target, index, st) ==
    [on |-> on, type |-> type, node |-> node, target |-> target, index |-> index,
     kids |-> IF node = Null THEN <<>> ELSE st.rules[node],
     par |-> IF node = Null THEN Null ELSE st.parent[node],
     tkids |-> IF target = Null THEN <<>> ELSE st.rules[target]]

\* EventEmitter.emit on a node, and element.dispatchEvent on the builder:
\* delivery is synchronous, the record snapshots the state at delivery time
emit(st, this, type, node, target, index) ==
    [st EXCEPT !.events = Append(@, Ev(this, type, node, target, index, st))]

trigger(st, type, node) == emit(st, Element, type, node, Null, 0)

\* ---- src/src/model.js ----
\* class EventEmitter.  L is this.listeners, a table from event names to
\* arrays of listeners; an event without entry reads as the empty array
\* (this.listeners[event] || []).
EmEvents == {"add", "drop"}
Listeners == {"l1", "l2"}
EmArgs == {"x", "y"}

\* Array.prototype.forEach(listener => listener(...args)) from position i
RECURSIVE forEach(_, _, _)
forEach(arr, i, args) ==
    IF i > Len(arr)
    THEN <<>>
    ELSE <<[listener |-> arr[i], args |-> args]>> \o forEach(arr, i + 1, args)

\* mutant: the listeners are called last registered first
EventEmitter_emit_reversed(L, event, args) == forEach(Reverse(L[event]), 1, args)

EventEmitter_emit(L, event, args) == forEach(L[event], 1, args)

EventEmitter_on(L, event, listener) == [L EXCEPT ![event] = Append(@, listener)]

EventEmitter_off(L, event, listener) ==
    LET index == IndexOf(L[event], listener)
    IN IF index > -1 THEN [L EXCEPT ![event] = SpliceOut(@, index)] ELSE L

\* what a listener does with the emitter while the emitter delivers to it:
\* nothing, or off(event, x) for one listener x
NoOff == [l \in Listeners |-> "none"]

\* emit, with listeners that call off() during the delivery.  forEach reads
\* the length once, then visits the positions k < len that the array still
\* has when it gets to them: this.listeners[event] is the live array that
\* off() splices.
RECURSIVE EventEmitter_emit_live(_, _, _, _, _, _)
EventEmitter_emit_live(L, event, args, does, k, len) ==
    IF k > len
    THEN [calls |-> <<>>, listeners |-> L]
    ELSE IF k > Len(L[event])
    THEN EventEmitter_emit_live(L, event, args, does, k + 1, len)
    ELSE LET l == L[event][k]
             L1 == IF does[l] = "none" THEN L ELSE EventEmitter_off(L, event, does[l])
             rest == EventEmitter_emit_live(L1, event, args, does, k + 1, len)
         IN [calls |-> <<[listener |-> l, args |-> args]>> \o rest.calls,
             listeners |-> rest.listeners]

\* ---- the builder's element as an event target (src/unnamed/part_000) ----
\* E.reg holds the listeners registered for one event type, in order; each
\* call of once() makes a new closure onceCb, told apart by "id".  A callback
\* "again" triggers an event of the same type from inside itself the first
\* time it runs; a callback "plain" triggers nothing.
Cbs == {"plain", "again"}

\* once(type, cb): addEventListener(type, onceCb)
once(E, cb) ==
    [E EXCEPT !.reg = Append(@, [id |-> Len(E.count) + 1, cb |-> cb]),
              !.count = Append(@, 0)]

removeEventListener(E, l) ==
    [E EXCEPT !.reg = SelectSeq(@, LAMBDA x : x # l)]

\* trigger(type): element.dispatchEvent(event).  The event target calls the
\* listeners of a copy of its list, skipping those removed meanwhile; onceCb
\* calls cb(event), then removeEventListener(type, onceCb).
RECURSIVE dispatchEvent(_, _, _)
dispatchEvent(E, clone, i) ==
    IF i > Len(clone)
    THEN E
    ELSE LET l == clone[i]
         IN IF \A j \in 1..Len(E.reg) : E.reg[j] # l
            THEN dispatchEvent(E, clone, i + 1)
            ELSE LET E1 == [E EXCEPT !.count[l.id] = @ + 1]
                     E2 == IF l.cb = "again" /\ E.count[l.id] = 0
                           THEN dispatchEvent(E1, E1.reg, 1)
                           ELSE E1
                     E3 == removeEventListener(E2, l)
                 IN dispatchEvent(E3, clone, i + 1)

\* new Group(parent, element) / new Rule(parent, element)
FreeNodes(st) == {n \in Nodes : st.kind[n] = "none"}
NewId(st) == CHOOSE n \in FreeNodes(st) : \A m \in FreeNodes(st) : n <= m

Node(st, n, k, p) ==
    [st EXCEPT !.kind[n] = k, !.parent[n] = p, !.level[n] = 1,
               !.error[n] = "null", !.flags[n] = NoFlags, !.data[n] = Undefined,
               !.rules[n] = <<>>,
               !.condition[n] = IF k = "group" THEN "null" ELSE Undefined,
               !.filter[n] = IF k = "rule" THEN "null" ELSE Undefined]

isRoot(st, n) == IF st.kind[n] = "rule" THEN FALSE ELSE st.level[n] = 1

length(st, g) == Len(st.rules[g])

removeNode(st, g, n) ==
    LET index == IndexOf(st.rules[g], n)
    IN IF index # -1
       THEN [st EXCEPT !.rules[g] = SpliceOut(@, index), !.parent[n] = Null]
       ELSE st

\* mutant: the add event is delivered before the list is changed
insertNode_emitFirst(st, g, n, index) ==
    LET s1 == emit(st, g, "add", n, g, index)
    IN [s1 EXCEPT !.rules[g] = SpliceIn(@, index, n), !.parent[n] = g, !.ret = n]

insertNode(st, g, n, index) ==
    LET s1 == [st EXCEPT !.rules[g] = SpliceIn(@, index, n), !.parent[n] = g]
    IN [emit(s1, g, "add", n, g, index) EXCEPT !.ret = n]

\* the index parameter with its default value this.length()
IndexOrDefault(st, g, ia) == IF ia = <<>> THEN length(st, g) ELSE ia[1]

Group_addGroup(st, g, ia) ==
    LET n == NewId(st)
    IN insertNode(Node(st, n, "group", g), g, n, IndexOrDefault(st, g, ia))

Group_addRule(st, g, ia) ==
    LET n == NewId(st)
    IN insertNode(Node(st, n, "rule", g), g, n, IndexOrDefault(st, g, ia))

\* mutant: the node is not detached from its parent
Node_drop_noRemove(st, n) == emit(st, n, "drop", n, Null, 0)

Node_drop(st, n) ==
    LET s1 == IF st.parent[n] # Null THEN removeNode(st, st.parent[n], n) ELSE st
    IN emit(s1, n, "drop", n, Null, 0)

RECURSIVE drop(_, _)
RECURSIVE dropEach(_, _)
dropEach(st, seq) ==
    IF seq = <<>> THEN st ELSE dropEach(drop(st, Head(seq)), Tail(seq))

\* mutant: the children are dropped first child first
empty_forward(st, g) == dropEach(st, st.rules[g])

empty(st, g) == dropEach(st, Reverse(st.rules[g]))

drop(st, n) ==
    IF st.kind[n] = "group" THEN Node_drop(empty(st, n), n) ELSE Node_drop(st, n)

move(st, n, target, index) ==
    IF ~isRoot(st, n)
    THEN IF st.parent[n] = Null
         THEN [st EXCEPT !.err = "TypeError"]
         ELSE LET s1 == removeNode(st, st.parent[n], n)
                  s2 == insertNode(s1, target, n, index)
              IN [emit(s2, n, "move", n, target, index) EXCEPT !.ret = Null]
    ELSE st

\* the target parameter with its default value this.parent
TargetOrDefault(st, n, ta) == IF ta = <<>> THEN st.parent[n] ELSE ta[1]

\* target.length() is read before move() takes the node out of its parent
moveAtEnd(st, n, ta) ==
    LET target == TargetOrDefault(st, n, ta)
    IN IF ~isRoot(st, n)
       THEN IF target = Null
            THEN [st EXCEPT !.err = "TypeError"]
            ELSE move(st, n, target, length(st, target) - 1)
       ELSE st

\* ---- the builder (src/unnamed/part_001, src/src/public.js) ----
Flag(st, n, k) == k \in DOMAIN st.flags[n] /\ st.flags[n][k]

\* status.group_id++ : the identifier returned carries the counter's value
\* before the increment.  "issued" is a history of the identifiers returned
\* so far (kept in the behaviours that start with history = TRUE) and
\* "reuse" tells whether this operation returned one of them again.
nextGroupId(st) ==
    [st EXCEPT !.group_id = @ + 1,
               !.issued.group = @ \cup {st.group_id},
               !.reuse = @ \/ st.group_id \in st.issued.group]

nextRuleId(st) ==
    [st EXCEPT !.rule_id = @ + 1,
               !.issued.rule = @ \cup {st.rule_id},
               !.reuse = @ \/ st.rule_id \in st.issued.rule]

\* createRuleFilters and applyRuleFlags only render; they publish their
\* notifications and leave the tree alone
createRuleFilters(st, r) ==
    LET s1 == trigger(st, "getRuleFilters", r)
        s2 == trigger(s1, "afterCreateRuleFilters", r)
    IN trigger(s2, "afterApplyRuleFlags", r)

\* mutant: rulesChanged is published before afterAddRule
addRule_changedFirst(st, p, d, f, reject) ==
    LET s0 == trigger(st, "beforeAddRule", p)
    IN IF reject
       THEN [s0 EXCEPT !.ret = Null, !.res = "null"]
       ELSE LET s1 == nextRuleId(s0)
                s2 == Group_addRule(s1, p, <<>>)
                n == s2.ret
                s3 == [s2 EXCEPT !.data[n] = d,
                                 !.flags[n] = Assign(default_rule_flags, f)]
                s4 == trigger(s3, "rulesChanged", Null)
                s5 == trigger(s4, "afterAddRule", n)
                s6 == createRuleFilters(s5, n)
                s7 == IF default_filter # "null" \/ ~display_empty_filter
                      THEN [trigger(s6, "getDefaultFilter", n) EXCEPT
                              !.filter[n] = IF default_filter # "null"
                                            THEN default_filter ELSE first_filter]
                      ELSE s6
            IN [s7 EXCEPT !.ret = n, !.res = "node"]

addRule(st, p, d, f, reject) ==
    LET s0 == trigger(st, "beforeAddRule", p)
    IN IF reject
       THEN [s0 EXCEPT !.ret = Null, !.res = "null"]
       ELSE LET s1 == nextRuleId(s0)
                s2 == Group_addRule(s1, p, <<>>)
                n == s2.ret
                s3 == [s2 EXCEPT !.data[n] = d,
                                 !.flags[n] = Assign(default_rule_flags, f)]
                s4 == trigger(s3, "afterAddRule", n)
                s5 == trigger(s4, "rulesChanged", Null)
                s6 == createRuleFilters(s5, n)
                s7 == IF default_filter # "null" \/ ~display_empty_filter
                      THEN [trigger(s6, "getDefaultFilter", n) EXCEPT
                              !.filter[n] = IF default_filter # "null"
                                            THEN default_filter ELSE first_filter]
                      ELSE s6
            IN [s7 EXCEPT !.ret = n, !.res = "node"]

setRoot(st, addR, d, f, rejR) ==
    LET s1 == nextGroupId(st)
        n == NewId(s1)
        s2 == [Node(s1, n, "group", Null) EXCEPT
                  !.data[n] = d,
                  !.flags[n] = Assign(default_group_flags, f),
                  !.condition[n] = default_condition]
        s3 == trigger(s2, "afterAddGroup", n)
        s4 == IF addR THEN addRule(s3, n, Undefined, NoFlags, rejR) ELSE s3
    IN [s4 EXCEPT !.ret = n, !.res = "node"]

\* mutant: the group id is drawn before the before event is published
addGroup_idFirst(st, p, addR, d, f, reject, rejR) ==
    LET s0 == trigger(nextGroupId(st), "beforeAddGroup", p)
    IN IF reject
       THEN [s0 EXCEPT !.ret = Null, !.res = "null"]
       ELSE LET n == NewId(s0)
                s2 == [Node(s0, n, "group", p) EXCEPT
                          !.data[n] = d,
                          !.flags[n] = Assign(default_group_flags, f),
                          !.condition[n] = default_condition]
                s3 == trigger(s2, "afterAddGroup", n)
                s4 == trigger(s3, "rulesChanged", Null)
                s5 == IF addR THEN addRule(s4, n, Undefined, NoFlags, rejR) ELSE s4
            IN [s5 EXCEPT !.ret = n, !.res = "node"]

addGroup(st, p, addR, d, f, reject, rejR) ==
    LET s0 == trigger(st, "beforeAddGroup", p)
    IN IF reject
       THEN [s0 EXCEPT !.ret = Null, !.res = "null"]
       ELSE LET s1 == nextGroupId(s0)
                n == NewId(s1)
                s2 == [Node(s1, n, "group", p) EXCEPT
                          !.data[n] = d,
                          !.flags[n] = Assign(default_group_flags, f),
                          !.condition[n] = default_condition]
                s3 == trigger(s2, "afterAddGroup", n)
                s4 == trigger(s3, "rulesChanged", Null)
                s5 == IF addR THEN addRule(s4, n, Undefined, NoFlags, rejR) ELSE s4
            IN [s5 EXCEPT !.ret = n, !.res = "node"]

\* mutant: the no_delete flag of the rule is not consulted
deleteRule_ignoreFlag(st, r, reject) ==
    LET s0 == trigger(st, "beforeDeleteRule", r)
    IN IF reject
       THEN [s0 EXCEPT !.res = "false"]
       ELSE LET s1 == drop(s0, r)
                s2 == trigger(s1, "afterDeleteRule", Null)
                s3 == trigger(s2, "rulesChanged", Null)
            IN [s3 EXCEPT !.res = "true"]

deleteRule(st, r, reject) ==
    IF Flag(st, r, "no_delete")
    THEN [st EXCEPT !.res = "false"]
    ELSE LET s0 == trigger(st, "beforeDeleteRule", r)
         IN IF reject
            THEN [s0 EXCEPT !.res = "false"]
            ELSE LET s1 == drop(s0, r)
                     s2 == trigger(s1, "afterDeleteRule", Null)
                     s3 == trigger(s2, "rulesChanged", Null)
                 IN [s3 EXCEPT !.res = "true"]

\* mutant: the group is emptied before its descendants' flags are consulted
deleteGroup_emptyFirst(st, g, reject) ==
    IF st.parent[g] = Null
    THEN [st EXCEPT !.res = "false"]
    ELSE LET s0 == trigger(st, "beforeDeleteGroup", g)
             del == \A c \in {st.rules[g][i] : i \in 1..Len(st.rules[g])} :
                        ~Flag(st, c, "no_delete")
         IN IF reject
            THEN [s0 EXCEPT !.res = "false"]
            ELSE IF del
                 THEN [drop(s0, g) EXCEPT !.res = "true"]
                 ELSE [empty(s0, g) EXCEPT !.res = "false"]

\* mutant: the guard looks for a missing parent and nothing else
deleteGroup_parentGuard(st, g, reject) ==
    IF st.parent[g] = Null
    THEN [st EXCEPT !.res = "false"]
    ELSE LET s0 == trigger(st, "beforeDeleteGroup", g)
         IN IF reject
            THEN [s0 EXCEPT !.res = "false"]
            ELSE [s0 EXCEPT !.err = "TypeError"]

\* Group has no method "each": the call at line 974 raises a TypeError
deleteGroup(st, g, reject) ==
    IF isRoot(st, g)
    THEN [st EXCEPT !.res = "false"]
    ELSE LET s0 == trigger(st, "beforeDeleteGroup", g)
         IN IF reject
            THEN [s0 EXCEPT !.res = "false"]
            ELSE [s0 EXCEPT !.err = "TypeError"]

reset(st, reject, rejR) ==
    LET s0 == trigger(st, "beforeReset", Null)
    IN IF reject
       THEN s0
       ELSE LET s1 == [s0 EXCEPT !.group_id = 1, !.rule_id = 0]
            IN IF s1.root = Null
               THEN [s1 EXCEPT !.err = "TypeError"]
               ELSE LET r == s1.root
                        s2 == empty(s1, r)
                        s3 == [s2 EXCEPT !.data[r] = Undefined,
                                         !.flags[r] = default_group_flags,
                                         !.condition[r] = default_condition]
                        s4 == addRule(s3, r, Undefined, NoFlags, rejR)
                        s5 == trigger(s4, "afterReset", Null)
                        s6 == trigger(s5, "rulesChanged", Null)
                    IN [s6 EXCEPT !.ret = Null, !.res = "undefined"]

clear(st, reject) ==
    LET s0 == trigger(st, "beforeClear", Null)
    IN IF reject
       THEN s0
       ELSE LET s1 == [s0 EXCEPT !.group_id = 0, !.rule_id = 0]
                s2 == IF s1.root # Null
                      THEN [drop(s1, s1.root) EXCEPT !.root = Null]
                      ELSE s1
                s3 == trigger(s2, "afterClear", Null)
            IN trigger(s3, "rulesChanged", Null)

\* destroy(): clear() returns early when beforeClear is rejected; the model
\* reference is released in either case
destroy(st, reject) ==
    LET s0 == trigger(st, "beforeDestroy", Null)
        s1 == clear(s0, reject)
    IN [s1 EXCEPT !.model = Null]

\* the filters configured in the builder, this.filters
configured_filters == <<[id |-> "f1"], [id |-> "f2"]>>

\* Rule has no property "__": createRuleOperators (line 1171 or 1173, when
\* the rule has a filter) and createRuleInput (line 1197) raise a TypeError
\* on rule.__ before anything is published
updateRuleFilter(st, r, previousFilter) ==
    LET s0 == [st EXCEPT !.io.prev = previousFilter]
        s1 == IF s0.filter[r] = "null" THEN s0 ELSE [s0 EXCEPT !.err = "TypeError"]
        s2 == IF s1.err # "" THEN s1 ELSE [s1 EXCEPT !.err = "TypeError"]
    IN IF s2.err # ""
       THEN s2
       ELSE LET s3 == IF /\ previousFilter # "null"
                         /\ s2.filter[r] # "null"
                         /\ previousFilter # s2.filter[r]
                      THEN [s2 EXCEPT !.data[r] = Undefined]
                      ELSE s2
                s4 == trigger(s3, "afterUpdateRuleFilter", r)
            IN trigger(s4, "rulesChanged", Null)

\* node || this.model.root; Group has no property "groups": the call of
\* node.groups.forEach at line 1427 raises a TypeError
clearErrors(st, na) ==
    LET node == IF na = <<>> THEN st.root ELSE na[1]
    IN IF node = Null
       THEN st
       ELSE LET s1 == [st EXCEPT !.error[node] = "null"]
            IN IF st.kind[node] = "group"
               THEN [s1 EXCEPT
                       !.error = [n \in Nodes |->
                                    IF \E i \in 1..Len(st.rules[node]) :
                                          st.rules[node][i] = n
                                    THEN "null" ELSE s1.error[n]],
                       !.err = "TypeError"]
               ELSE s1

triggerValidationError(st, node, e, prevented) ==
    LET s1 == trigger(st, "validationError", node)
    IN IF prevented THEN s1 ELSE [s1 EXCEPT !.error[node] = e]

\* isValid is true; "verdict" is what detail.isValid holds once the
\* subscribers of validate have run
validate(st, verdict) ==
    LET s1 == clearErrors(st, <<>>)
    IN IF s1.err # ""
       THEN s1
       ELSE [trigger(s1, "validate", Null) EXCEPT
                !.io.valid = verdict,
                !.res = IF verdict THEN "true" ELSE "false"]

\* rules = {} : the object returned describes no group
getRules(st, allow_invalid, verdict) ==
    LET s1 == validate([st EXCEPT !.io.allow_invalid = allow_invalid], verdict)
    IN IF s1.err # ""
       THEN s1
       ELSE IF ~verdict /\ ~allow_invalid
            THEN [s1 EXCEPT !.res = "null"]
            ELSE [trigger(s1, "getRules", Null) EXCEPT
                     !.io.out = <<>>, !.res = "object"]

setRules(st, d, from_export) ==
    [trigger(st, "setRules", Null) EXCEPT
        !.io.given = d, !.io.from_export = from_export, !.res = "undefined"]

\* init(rules) without rules
init(st, rejR) ==
    LET s0 == trigger(st, "afterInit", Null)
    IN setRoot(s0, TRUE, Undefined, NoFlags, rejR)

\* ---- parseRuleFlags / parseGroupFlags (src/unnamed/part_001) ----
FlagNames == {"no_delete", "filter_readonly", "condition_readonly"}
\* a flags object: some of the names, each true or false
FlagSets == UNION {[D -> BOOLEAN] : D \in SUBSET FlagNames}

RuleReadonly == [filter_readonly |-> TRUE, operator_readonly |-> TRUE,
                 value_readonly |-> TRUE, no_delete |-> TRUE]
GroupReadonly == [condition_readonly |-> TRUE, no_add_rule |-> TRUE,
                  no_add_group |-> TRUE, no_delete |-> TRUE]

\* this.change(type, value, ...): the value carried by the event, which no
\* subscriber replaces
change(type, value) == value

\* mutant: the readonly flags are applied after the explicit ones
parseRuleFlags_readonlyLast(defaults, rule) ==
    LET f0 == Assign(NoFlags, defaults)
        f1 == IF rule.has_flags THEN Assign(f0, rule.flags) ELSE f0
        f2 == IF rule.readonly THEN Assign(f1, RuleReadonly) ELSE f1
    IN [flags |-> change("parseRuleFlags", f2), settings |-> defaults]

\* The argument "defaults" is settings.default_rule_flags; "rule" is the
\* raw rule, with has_flags telling whether rule.flags is given.  The result
\* carries the flags returned and the settings object as the call leaves it
\* (the spread copies it).
parseRuleFlags(defaults, rule) ==
    LET f0 == Assign(NoFlags, defaults)
        f1 == IF rule.readonly THEN Assign(f0, RuleReadonly) ELSE f0
        f2 == IF rule.has_flags THEN Assign(f1, rule.flags) ELSE f1
    IN [flags |-> change("parseRuleFlags", f2), settings |-> defaults]

parseGroupFlags(defaults, group) ==
    LET f0 == Assign(NoFlags, defaults)
        f1 == IF group.readonly THEN Assign(f0, GroupReadonly) ELSE f0
        f2 == IF group.has_flags THEN Assign(f1, group.flags) ELSE f1
    IN [flags |-> change("parseGroupFlags", f2), settings |-> defaults]

\* getRuleFlags(flags, all) / getGroupFlags(flags, all).  "defaults" is
\* settings.default_rule_flags (default_group_flags).  The keys visited are
\* the keys of the defaults; ret[key] = flags[key] is undefined when flags
\* (here fl) has no such key: "undef" is the set of the keys so assigned.
getRuleFlags(defaults, fl, all) ==
    IF all
    THEN [ret |-> Assign(NoFlags, fl), undef |-> {}]
    ELSE LET changed == {key \in DOMAIN defaults :
                            key \notin DOMAIN fl \/ fl[key] # defaults[key]}
         IN [ret |-> [key \in changed \cap DOMAIN fl |-> fl[key]],
             undef |-> changed \ DOMAIN fl]

getGroupFlags(defaults, fl, all) ==
    IF all
    THEN [ret |-> Assign(NoFlags, fl), undef |-> {}]
    ELSE LET changed == {key \in DOMAIN defaults :
                            key \notin DOMAIN fl \/ fl[key] # defaults[key]}
         IN [ret |-> [key \in changed \cap DOMAIN fl |-> fl[key]],
             undef |-> changed \ DOMAIN fl]

\* ---- the registry of filters and operators (src/unnamed/part_001) ----
\* QueryBuilder.types: the category of each recognised type of filter
types == [string |-> "string", integer |-> "number", double |-> "number",
          datetime |-> "datetime", boolean |-> "boolean"]

\* Array.prototype.sort((a, b) => key[a] - key[b]), which is stable
RECURSIVE sort(_, _)
sort(seq, key) ==
    IF seq = <<>>
    THEN <<>>
    ELSE LET front == sort(SubSeq(seq, 1, Len(seq) - 1), key)
             x == seq[Len(seq)]
             n == Cardinality({j \in 1..Len(front) : key[front[j]] <= key[x]})
         IN SubSeq(front, 1, n) \o <<x>> \o SubSeq(front, n + 1, Len(front))

\* The lookups return the position (from 1) of the entry found in the
\* registered list, 0 for null, and the error thrown ("" when none).
\* mutant: the sentinel is looked up like any other id
getFilterById_noSentinel(filters, id, doThrow) ==
    LET hits == {i \in 1..Len(filters) : filters[i].id = id}
    IN IF hits # {}
       THEN [ret |-> CHOOSE i \in hits : \A j \in hits : i <= j, err |-> ""]
       ELSE IF doThrow
            THEN [ret |-> 0, err |-> "Undefined filter"]
            ELSE [ret |-> 0, err |-> ""]

getFilterById(filters, id, doThrow) ==
    LET hits == {i \in 1..Len(filters) : filters[i].id = id}
    IN IF id = "-1"
       THEN [ret |-> 0, err |-> ""]
       ELSE IF hits # {}
            THEN [ret |-> CHOOSE i \in hits : \A j \in hits : i <= j, err |-> ""]
            ELSE IF doThrow
                 THEN [ret |-> 0, err |-> "Undefined filter"]
                 ELSE [ret |-> 0, err |-> ""]

getOperatorByType(operators, type, doThrow) ==
    LET hits == {i \in 1..Len(operators) : operators[i].type = type}
    IN IF type = "-1"
       THEN [ret |-> 0, err |-> ""]
       ELSE IF hits # {}
            THEN [ret |-> CHOOSE i \in hits : \A j \in hits : i <= j, err |-> ""]
            ELSE IF doThrow
                 THEN [ret |-> 0, err |-> "Undefined operator"]
                 ELSE [ret |-> 0, err |-> ""]

\* the operators kept by the loop of getOperators, as positions in
\* this.operators, in the order of the list
pick(operators, f) ==
    LET keep(i) == IF f.has_operators
                   THEN \E a \in 1..Len(f.operators) : f.operators[a] = operators[i].type
                   ELSE types[f.type] \in operators[i].apply_to
    IN SelectSeq([i \in 1..Len(operators) |-> i], keep)

\* mutant: the result is left in the order of this.operators
getOperators_catalogOrder(operators, filters, arg) ==
    LET look == getFilterById(filters, arg.id, TRUE)
    IN IF arg.by_id /\ look.err # ""
       THEN [result |-> <<>>, err |-> look.err, operators |-> operators]
       ELSE IF arg.by_id /\ look.ret = 0
            THEN [result |-> <<>>, err |-> "TypeError", operators |-> operators]
            ELSE LET f == IF arg.by_id THEN filters[look.ret] ELSE arg
                 IN [result |-> change("getOperators", pick(operators, f)),
                     err |-> "", operators |-> operators]

\* getOperators(filter): "arg" is a filter object, or (by_id) the id of a
\* registered filter.  The result is a new array of the operators kept,
\* given by their positions in this.operators; "operators" is
\* this.operators as the call leaves it.
getOperators(operators, filters, arg) ==
    LET look == getFilterById(filters, arg.id, TRUE)
    IN IF arg.by_id /\ look.err # ""
       THEN [result |-> <<>>, err |-> look.err, operators |-> operators]
       ELSE IF arg.by_id /\ look.ret = 0
            THEN [result |-> <<>>, err |-> "TypeError", operators |-> operators]
            ELSE LET f == IF arg.by_id THEN filters[look.ret] ELSE arg
                     key == [i \in 1..Len(operators) |->
                                IndexOf(f.operators, operators[i].type)]
                     kept == pick(operators, f)
                     result == IF f.has_operators THEN sort(kept, key) ELSE kept
                 IN [result |-> change("getOperators", result),
                     err |-> "", operators |-> operators]

\* ---- checkFilters / checkOperators (src/unnamed/part_001) ----
\* A property a descriptor does not have is "" (nb_inputs: -1); null is "null".
\* QueryBuilder.inputs: the recognised kinds of input
inputs == {"text", "number", "radio", "checkbox", "select"}
\* QueryBuilder.OPERATORS: the global catalog.  Of apply_to only its presence
\* matters to the checks.  origin tells which object an entry of a list is:
\* the one the caller gave, a new object, or the catalog's own.
OPERATORS ==
    [equal |-> [str |-> FALSE, type |-> "equal", nb_inputs |-> 1, has_apply_to |-> TRUE,
                optgroup |-> "", origin |-> "catalog"],
     between |-> [str |-> FALSE, type |-> "between", nb_inputs |-> 2, has_apply_to |-> TRUE,
                  optgroup |-> "", origin |-> "catalog"]]

\* this.groupSort(items, "optgroup"): a new array in which an item that has an
\* optgroup follows the last item placed of the same optgroup, and any other
\* item goes to the end
RECURSIVE groupSort(_)
groupSort(items) ==
    IF items = <<>>
    THEN <<>>
    ELSE LET front == groupSort(SubSeq(items, 1, Len(items) - 1))
             x == items[Len(items)]
             same == {j \in 1..Len(front) : front[j].optgroup = x.optgroup}
             idx == IF x.optgroup \notin {"", "null"} /\ same # {}
                    THEN CHOOSE j \in same : \A k \in same : k <= j
                    ELSE Len(front)
         IN SubSeq(front, 1, idx) \o <<x>> \o SubSeq(front, idx + 1, Len(front))

\* The state of a check: the supplied array as it stands, the two status
\* fields, settings.optgroups (its keys) and the error thrown ("" when none).
\* One turn of the forEach of checkFilters, on filters[i]; "defined" holds the
\* ids seen before.  Each assignment to the filter is made before the tests
\* that follow it.
checkFilter(st, i, defined) ==
    LET f == st.filters[i]
        set(g, e) == [st EXCEPT !.filters[i] = g, !.err = e]
        f1 == [f EXCEPT !.type = IF f.type = "" THEN "string" ELSE f.type]
        f2 == [f1 EXCEPT !.input = IF f1.input # "" THEN f1.input
                                   ELSE IF types[f1.type] = "number" THEN "number"
                                   ELSE "text"]
        f3 == [f2 EXCEPT !.field = IF f2.field # "" THEN f2.field ELSE f2.id]
        f4 == [f3 EXCEPT !.label = IF f3.label # "" THEN f3.label ELSE f3.field,
                         !.optgroup = IF f3.optgroup # "" THEN f3.optgroup ELSE "null"]
    IN IF f.id = ""
       THEN set(f, "Missing filter id")
       ELSE IF f.id \in defined
       THEN set(f, "Filter already defined")
       ELSE IF f.type # "" /\ f.type \notin DOMAIN types
       THEN set(f, "Invalid type")
       ELSE IF f1.input \notin {"", "function"} /\ f1.input \notin inputs
       THEN set(f1, "Invalid input")
       ELSE IF f2.allow = "mixed"
       THEN set(f2, "Filter operators must be global operators types (string)")
       ELSE IF f4.optgroup # "null"
       THEN [st EXCEPT !.filters[i] = f4, !.has_optgroup = TRUE,
                       !.optgroups = @ \cup {f4.optgroup}]
       ELSE [st EXCEPT !.filters[i] = f4]

\* Array.prototype.forEach with a callback that may throw
RECURSIVE eachFilter(_, _)
eachFilter(st, i) ==
    IF i > Len(st.filters) \/ st.err # ""
    THEN st
    ELSE eachFilter(checkFilter(st, i, {st.filters[j].id : j \in 1..(i - 1)}), i + 1)

\* checkFilters(filters); settings.sort_filters is not set.  "ret" is the
\* array returned.
checkFilters(st) ==
    IF st.filters = <<>>
    THEN [st EXCEPT !.err = "Missing filters list"]
    ELSE LET r == eachFilter(st, 1)
         IN IF r.err # "" THEN r ELSE [r EXCEPT !.ret = r.filters]

\* Object.assign({}, QueryBuilder.OPERATORS[type], operator)
extend(entry, operator) ==
    [str |-> FALSE, type |-> operator.type,
     nb_inputs |-> IF operator.nb_inputs # -1 THEN operator.nb_inputs ELSE entry.nb_inputs,
     has_apply_to |-> operator.has_apply_to \/ entry.has_apply_to,
     optgroup |-> IF operator.optgroup # "" THEN operator.optgroup ELSE entry.optgroup,
     origin |-> "copy"]

\* mutant: an inline descriptor is taken without looking at nb_inputs and apply_to
resolve_unchecked(operator) ==
    IF operator.str
    THEN IF operator.type \notin DOMAIN OPERATORS
         THEN [op |-> operator, err |-> "Unknown operator"]
         ELSE [op |-> [OPERATORS[operator.type] EXCEPT !.origin = "copy"], err |-> ""]
    ELSE IF operator.type = ""
         THEN [op |-> operator, err |-> "Missing type"]
         ELSE [op |-> IF operator.type \in DOMAIN OPERATORS
                      THEN extend(OPERATORS[operator.type], operator)
                      ELSE operator,
               err |-> ""]

\* The first part of a turn of the forEach of checkOperators: the object that
\* operators[i] holds after it, and the error thrown.
resolve(operator) ==
    IF operator.str
    THEN IF operator.type \notin DOMAIN OPERATORS
         THEN [op |-> operator, err |-> "Unknown operator"]
         ELSE [op |-> [OPERATORS[operator.type] EXCEPT !.origin = "copy"], err |-> ""]
    ELSE IF operator.type = ""
         THEN [op |-> operator, err |-> "Missing type"]
         ELSE LET o == IF operator.type \in DOMAIN OPERATORS
                       THEN extend(OPERATORS[operator.type], operator)
                       ELSE operator
              IN [op |-> o,
                  err |-> IF o.nb_inputs = -1 \/ ~o.has_apply_to
                          THEN "Missing nb_inputs and/or apply_to"
                          ELSE ""]

\* One turn of the forEach of checkOperators, on operators[i]; "defined"
\* holds the types seen before.
checkOperator(st, i, defined) ==
    LET r == resolve(st.operators[i])
        st1 == [st EXCEPT !.operators[i] = r.op]
    IN IF r.err # ""
       THEN [st1 EXCEPT !.err = r.err]
       ELSE IF r.op.type \in defined
       THEN [st1 EXCEPT !.err = "Operator already defined"]
       ELSE IF r.op.optgroup = ""
       THEN [st1 EXCEPT !.operators[i].optgroup = "null"]
       ELSE IF r.op.optgroup = "null"
       THEN st1
       ELSE [st1 EXCEPT !.has_operator_optgroup = TRUE,
                        !.optgroups = @ \cup {r.op.optgroup}]

RECURSIVE eachOperator(_, _)
eachOperator(st, i) ==
    IF i > Len(st.operators) \/ st.err # ""
    THEN st
    ELSE eachOperator(checkOperator(st, i, {st.operators[j].type : j \in 1..(i - 1)}),
                      i + 1)

\* checkOperators(operators).  "ret_ops" is the array returned.
checkOperators(st) ==
    LET r == eachOperator(st, 1)
    IN IF r.err # ""
       THEN r
       ELSE [r EXCEPT !.ret_ops = IF r.has_operator_optgroup
                                  THEN groupSort(r.operators)
                                  ELSE r.operators]

\* ---- value validation (src/unnamed/part_001) ----
\* A string is the sequence of its character codes.  A scalar value is
\* undefined, a string or a number; a slot (value[i]) is a scalar or an array
\* of scalars, held in "items" either way.
Str(codes) == [t |-> "string", s |-> codes, n |-> 0]
Num(k) == [t |-> "number", s |-> <<>>, n |-> k]
Undef == [t |-> "undefined", s |-> <<>>, n |-> 0]
One(v) == [arr |-> FALSE, items |-> <<v>>]
Arr(vs) == [arr |-> TRUE, items |-> vs]
\* A number is [nan, n]: NaN, or the number n.
\* the number written by the digits of a string from position i on
RECURSIVE digits(_, _, _)
digits(codes, i, acc) ==
    IF i > Len(codes) \/ codes[i] \notin 48..57
    THEN acc
    ELSE digits(codes, i + 1, acc * 10 + (codes[i] - 48))

\* parseFloat(value) and parseInt(value), on strings without sign, blank,
\* point or exponent, and on numbers
parseFloat(v) ==
    IF v.t = "number" THEN [nan |-> FALSE, n |-> v.n]
    ELSE IF v.t = "string" /\ v.s # <<>> /\ v.s[1] \in 48..57
         THEN [nan |-> FALSE, n |-> digits(v.s, 1, 0)]
    ELSE [nan |-> TRUE, n |-> 0]

parseInt(v) ==
    IF v.t = "number" THEN [nan |-> FALSE, n |-> v.n]
    ELSE IF v.t = "string" /\ v.s # <<>> /\ v.s[1] \in 48..57
         THEN [nan |-> FALSE, n |-> digits(v.s, 1, 0)]
    ELSE [nan |-> TRUE, n |-> 0]

\* String(n) for n >= 0
RECURSIVE NumberToString(_)
NumberToString(k) ==
    IF k < 10 THEN <<48 + k>> ELSE NumberToString(k \div 10) \o <<48 + (k % 10)>>

\* Array.prototype.join(","), which is how an array becomes a primitive
RECURSIVE join(_)
join(vs) ==
    IF vs = <<>>
    THEN <<>>
    ELSE LET x == vs[Len(vs)]
             str == IF x.t = "string" THEN x.s
                    ELSE IF x.t = "number" THEN NumberToString(x.n)
                    ELSE <<>>
         IN IF Len(vs) = 1 THEN str ELSE join(SubSeq(vs, 1, Len(vs) - 1)) \o <<44>> \o str

\* ToNumber of a primitive: the empty string is 0, a string of digits its
\* number, any other string and undefined NaN
ToNumber(v) ==
    IF v.t = "number" THEN [nan |-> FALSE, n |-> v.n]
    ELSE IF v.t = "undefined" THEN [nan |-> TRUE, n |-> 0]
    ELSE IF v.s = <<>> THEN [nan |-> FALSE, n |-> 0]
    ELSE IF \A i \in 1..Len(v.s) : v.s[i] \in 48..57
         THEN [nan |-> FALSE, n |-> digits(v.s, 1, 0)]
    ELSE [nan |-> TRUE, n |-> 0]

\* a < b on strings: by code units, a proper prefix first
RECURSIVE lexLess(_, _)
lexLess(a, b) ==
    IF b = <<>> THEN FALSE
    ELSE IF a = <<>> THEN TRUE
    ELSE IF a[1] # b[1] THEN a[1] < b[1]
    ELSE lexLess(Tail(a), Tail(b))

\* value[0] > value[1]: two strings are compared as strings, anything else
\* as numbers, and a comparison with NaN is false
greater(x, y) ==
    LET px == IF x.arr THEN Str(join(x.items)) ELSE x.items[1]
        py == IF y.arr THEN Str(join(y.items)) ELSE y.items[1]
    IN IF px.t = "string" /\ py.t = "string"
       THEN lexLess(py.s, px.s)
       ELSE LET nx == ToNumber(px)
                ny == ToNumber(py)
            IN ~nx.nan /\ ~ny.nan /\ nx.n > ny.n

\* what the validators return: true, or an array of a code and arguments:
\* "args" holds the arguments that are values, "names" those that are the
\* type of the operator and its translation.  "seen" lists, in order, the slots and values whose emptiness or
\* type was examined: <<i, j>> is value j of slot i, <<i, 0>> slot i itself.
Valid == [ok |-> TRUE, code |-> "", args |-> <<>>, names |-> <<>>]
Invalid(code, args) == [ok |-> FALSE, code |-> code, args |-> args, names |-> <<>>]

\* this.translate(category, key) when this.lang[category] has no entry for key
translate(category, key) == key

\* val === undefined || val.length === 0
isEmpty(v) == v.t = "undefined" \/ (v.t = "string" /\ v.s = <<>>)

\* validateByType(filter, value, validation) for the string and number
\* categories; validation.format is not set.  The length of a number is
\* undefined, and a comparison with undefined is false.
validateByType(f, v, validation) ==
    IF types[f.type] = "string"
    THEN IF validation.has_range /\ v.t = "string" /\ Len(v.s) < validation.min
         THEN Invalid("string_exceed_min_length", <<One(Num(validation.min))>>)
         ELSE IF validation.has_range /\ v.t = "string" /\ Len(v.s) > validation.max
         THEN Invalid("string_exceed_max_length", <<One(Num(validation.max))>>)
         ELSE Valid
    ELSE LET numValue == parseFloat(v)
         IN IF numValue.nan
            THEN Invalid("number_nan", <<>>)
            ELSE IF f.type = "integer" /\ parseInt(v) # numValue
            THEN Invalid("number_not_double", <<>>)
            ELSE IF validation.has_range /\ numValue.n < validation.min
            THEN Invalid("number_exceed_min", <<One(Num(validation.min))>>)
            ELSE IF validation.has_range /\ numValue.n > validation.max
            THEN Invalid("number_exceed_max", <<One(Num(validation.max))>>)
            ELSE Valid

\* the body of "for (let val of tempValue)" on one value
checkVal(rule, v) ==
    IF isEmpty(v)
    THEN IF ~rule.validation.allow_empty_value
         THEN Invalid(rule.filter.input \o "_empty", <<>>)
         ELSE Valid
    ELSE validateByType(rule.filter, v, rule.validation)

\* mutant: the loop over the values of a slot goes on after a failure and
\* the last failure is returned
RECURSIVE eachVal_noReturn(_, _, _, _, _)
eachVal_noReturn(rule, items, i, j, acc) ==
    IF j > Len(items)
    THEN acc
    ELSE LET r == checkVal(rule, items[j])
         IN eachVal_noReturn(rule, items, i, j + 1,
                [res |-> IF r.ok THEN acc.res ELSE r, seen |-> Append(acc.seen, <<i, j>>)])

\* "for (let val of tempValue)": returns at the first value that fails
RECURSIVE eachVal(_, _, _, _, _)
eachVal(rule, items, i, j, acc) ==
    IF j > Len(items)
    THEN acc
    ELSE LET r == checkVal(rule, items[j])
             next == [res |-> r, seen |-> Append(acc.seen, <<i, j>>)]
         IN IF ~r.ok THEN next ELSE eachVal(rule, items, i, j + 1, next)

\* value[i] === undefined || value[i].length === 0; filter.placeholder is
\* not set
slotEmpty(slot) == IF slot.arr THEN slot.items = <<>> ELSE isEmpty(slot.items[1])

\* mutant: a slot is not tested for holding several values
checkSlot_anyCount(rule, slot, i, seen) ==
    IF rule.filter.input \in {"radio", "checkbox", "select"}
    THEN [res |-> IF slotEmpty(slot) /\ ~rule.validation.allow_empty_value
                  THEN Invalid(rule.filter.input \o "_empty", <<>>)
                  ELSE Valid,
          seen |-> Append(seen, <<i, 0>>)]
    ELSE eachVal(rule, slot.items, i, 1, [res |-> Valid, seen |-> seen])

\* one turn of the loop over the inputs, on slot value[i]
checkSlot(rule, slot, i, seen) ==
    IF ~rule.operator.multiple /\ slot.arr /\ Len(slot.items) > 1
    THEN [res |-> [Invalid("operator_not_multiple", <<>>) EXCEPT
                      !.names = <<rule.operator.type,
                                  translate("operators", rule.operator.type)>>],
          seen |-> seen]
    ELSE IF rule.filter.input \in {"radio", "checkbox", "select"}
    THEN [res |-> IF slotEmpty(slot) /\ ~rule.validation.allow_empty_value
                  THEN Invalid(rule.filter.input \o "_empty", <<>>)
                  ELSE Valid,
          seen |-> Append(seen, <<i, 0>>)]
    ELSE eachVal(rule, slot.items, i, 1, [res |-> Valid, seen |-> seen])

\* value[i], undefined past the end of the array
SlotAt(value, i) == IF i <= Len(value) THEN value[i] ELSE One(Undef)

\* "for (let i = 0; i < operator.nb_inputs; i++)", slots counted from 1
RECURSIVE eachSlot(_, _, _, _)
eachSlot(rule, value, i, acc) ==
    IF i > rule.operator.nb_inputs
    THEN acc
    ELSE LET r == checkSlot(rule, SlotAt(value, i), i, acc.seen)
         IN IF ~r.res.ok THEN r ELSE eachSlot(rule, value, i + 1, r)

\* _validateValue(rule, value).  The value given is raw.one when the
\* operator has one input (it is wrapped in an array) and the array raw.many
\* otherwise.  Filters of the datetime category are not drawn.
_validateValue(rule, raw) ==
    LET value == IF rule.operator.nb_inputs = 1 THEN <<raw.one>> ELSE raw.many
        r == eachSlot(rule, value, 1, [res |-> Valid, seen |-> <<>>])
    IN IF ~r.res.ok
       THEN r
       ELSE IF /\ rule.operator.type \in {"between", "not_between"}
               /\ Len(value) = 2
               /\ types[rule.filter.type] = "number"
               /\ greater(value[1], value[2])
       THEN [r EXCEPT !.res = Invalid(rule.filter.type \o "_between_invalid",
                                      <<value[1], value[2]>>)]
       ELSE r

\* mutant: the built-in validator runs first and the callback is asked only
\* about what it accepts
validateValue_builtinFirst(rule, raw, subscriber) ==
    LET b == _validateValue(rule, raw)
        result == IF rule.validation.callback /\ b.res.ok
                  THEN rule.validation.callback_result
                  ELSE b.res
    IN [result |-> IF subscriber = "replace" THEN Invalid("replaced", <<>>) ELSE result,
        builtin |-> TRUE, seen |-> b.seen]

\* validateValue(rule, value).  A subscriber of the validateValue event may
\* assign event.detail.result ("replace"), call preventDefault ("prevent"),
\* or there is none; the result of a prevented event is not read back.
\* "builtin" tells whether _validateValue ran.
validateValue(rule, raw, subscriber) ==
    LET b == _validateValue(rule, raw)
        result == IF rule.validation.callback
                  THEN rule.validation.callback_result
                  ELSE b.res
    IN [result |-> IF subscriber = "replace" THEN Invalid("replaced", <<>>) ELSE result,
        builtin |-> ~rule.validation.callback,
        seen |-> IF rule.validation.callback THEN <<>> ELSE b.seen]

\* ---- installing the result of an operation ----
Install(st, op, node, target, index, rejected) ==
    /\ kind' = st.kind
    /\ parent' = st.parent
    /\ level' = st.level
    /\ rules' = st.rules
    /\ flags' = st.flags
    /\ data' = st.data
    /\ condition' = st.condition
    /\ filter' = st.filter
    /\ error' = st.error
    /\ root' = st.root
    /\ group_id' = st.group_id
    /\ rule_id' = st.rule_id
    /\ events' = st.events
    /\ model' = st.model
    /\ io' = st.io
    /\ issued' = (IF history THEN st.issued ELSE issued)
    /\ history' = history
    /\ UNCHANGED <<emitter, pure>>
    /\ lastOp' = [op |-> op, node |-> node, target |-> target, index |-> index,
                  rejected |-> rejected, err |-> st.err, ret |-> st.ret,
                  res |-> st.res, reuse |-> st.reuse]

Created == {n \in Nodes : kind[n] # "none"}
Groups == {n \in Nodes : kind[n] = "group"}
Free == {n \in Nodes : kind[n] = "none"}

\* a builder just constructed: no node yet, model.root null, counters at 0
FreshBuilder ==
    /\ kind = [n \in Nodes |-> "none"]
    /\ parent = [n \in Nodes |-> Null]
    /\ level = [n \in Nodes |-> 0]
    /\ rules = [n \in Nodes |-> <<>>]
    /\ flags = [n \in Nodes |-> NoFlags]
    /\ data = [n \in Nodes |-> Undefined]
    /\ condition = [n \in Nodes |-> Undefined]
    /\ filter = [n \in Nodes |-> Undefined]
    /\ error = [n \in Nodes |-> Undefined]
    /\ root = Null
    /\ group_id = 0
    /\ rule_id = 0
    /\ events = <<>>
    /\ lastOp = [op |-> "new", node |-> Null, target |-> Null, index |-> 0,
                 rejected |-> FALSE, err |-> "", ret |-> Null, res |-> "undefined",
                 reuse |-> FALSE]
    /\ model = TheModel
    /\ issued = [group |-> {}, rule |-> {}]
    /\ io = NoIo

\* an EventEmitter just constructed: this.listeners = {}
FreshEmitter ==
    /\ listeners = [e \in EmEvents |-> <<>>]
    /\ calls = <<>>
    /\ emOp = [op |-> "new", event |-> "none", listener |-> "none", args |-> "none",
               does |-> NoOff]
    /\ el = [reg |-> <<>>, count |-> <<>>, op |-> "new"]

NoParse == [kind |-> "none", defaults |-> NoFlags, readonly |-> FALSE,
            has_flags |-> FALSE, given |-> NoFlags, done |-> FALSE,
            result |-> NoFlags, after |-> NoFlags,
            got_done |-> FALSE, all |-> FALSE, got |-> NoFlags, got_undef |-> {}]

\* no lookup made, nothing registered
NoLookup == [operators |-> <<>>, filters |-> <<>>, op |-> "none",
             arg |-> [by_id |-> FALSE, id |-> "", type |-> "string",
                      has_operators |-> FALSE, operators |-> <<>>],
             key |-> "", doThrow |-> "omitted", ret |-> 0, err |-> "",
             result |-> <<>>, after |-> <<>>]

\* no check made: the status of a new builder, settings.optgroups empty
NoCheck == [fn |-> "none", which |-> "none", given |-> <<>>, given_ops |-> <<>>,
            filters |-> <<>>, operators |-> <<>>, ret |-> <<>>, ret_ops |-> <<>>,
            err |-> "", has_optgroup |-> FALSE, has_operator_optgroup |-> FALSE,
            optgroups |-> {}]

\* no validation made
NoValidation == [fn |-> "none",
                 rule |-> [filter |-> [type |-> "string", input |-> "text"],
                           validation |-> [allow_empty_value |-> FALSE,
                                           has_range |-> FALSE, min |-> 0, max |-> 0,
                                           callback |-> FALSE, callback_result |-> Valid],
                           operator |-> [type |-> "equal", nb_inputs |-> 1,
                                         multiple |-> FALSE]],
                 raw |-> [one |-> One(Undef), many |-> <<>>],
                 subscriber |-> "none", result |-> Valid, builtin |-> FALSE,
                 seen |-> <<>>]

Fresh ==
    /\ FreshBuilder
    /\ FreshEmitter
    /\ pf = NoParse
    /\ reg = NoLookup
    /\ chk = NoCheck
    /\ vv = NoValidation

Init == Fresh /\ history = FALSE

\* the same builder, with the history of its identifiers recorded
IdInit == Fresh /\ history = TRUE

\* ---- actions: direct calls on the tree (src/src/model.js) ----
\* Allocating actions are enabled while the pool of MaxNodes objects lasts.
\* destroy() is the last call of a builder's life: once it has released the
\* model (and deleted element.queryBuilder) the builder and its nodes are
\* not used any more, so every action requires model # Null.
GroupAddRule ==
    /\ model # Null
    /\ \E g \in Groups, ia \in IndexArgs :
           /\ Free # {}
           /\ Install(Group_addRule(Cur, g, ia), "Group.addRule", NewId(Cur), g,
                      IndexOrDefault(Cur, g, ia), FALSE)

GroupAddGroup ==
    /\ model # Null
    /\ \E g \in Groups, ia \in IndexArgs :
           /\ Free # {}
           /\ Install(Group_addGroup(Cur, g, ia), "Group.addGroup", NewId(Cur), g,
                      IndexOrDefault(Cur, g, ia), FALSE)

Drop ==
    /\ model # Null
    /\ \E n \in Created : Install(drop(Cur, n), "drop", n, Null, 0, FALSE)

Empty ==
    /\ model # Null
    /\ \E g \in Groups : Install(empty(Cur, g), "empty", g, Null, 0, FALSE)

Move ==
    /\ model # Null
    /\ \E n \in Created, g \in Groups, i \in (-1)..MaxIndex :
           Install(move(Cur, n, g, i), "move", n, g, i, FALSE)

RemoveNode ==
    /\ model # Null
    /\ \E g \in Groups, n \in Created :
           Install(removeNode(Cur, g, n), "removeNode", n, g, 0, FALSE)

\* a node that is in no children list and has no parent
Detached(n) ==
    /\ kind[n] # "none"
    /\ parent[n] = Null
    /\ \A g \in Nodes : IndexOf(rules[g], n) = -1

RECURSIVE Subtree(_)
Subtree(n) ==
    {n} \cup UNION {Subtree(rules[n][i]) : i \in 1..Len(rules[n])}

\* Group.insertNode called directly, with a node the caller holds and that
\* is attached nowhere (as its callers addGroup, addRule and move ensure)
InsertNode ==
    /\ model # Null
    /\ \E g \in Groups, n \in Created, ia \in IndexArgs :
           /\ Detached(n)
           /\ g \notin Subtree(n)
           /\ Install(insertNode(Cur, g, n, IndexOrDefault(Cur, g, ia)),
                      "insertNode", n, g, IndexOrDefault(Cur, g, ia), FALSE)

\* ---- actions: builder operations ----
\* "reject" and "rejR" say whether a subscriber rejects the operation's own
\* before event and the before event of the default rule it adds.  A call
\* that is rejected ignores its remaining arguments, which are then fixed.
\* The last argument of Install tells whether the operation's own before
\* event was published and rejected.
SetRoot ==
    /\ model # Null
    /\ \E addR \in BOOLEAN, a \in NodeArgs, rejR \in BOOLEAN :
           /\ rejR => addR
           /\ Cardinality(Free) >= (IF addR /\ ~rejR THEN 2 ELSE 1)
           /\ Install(setRoot(Cur, addR, a.data, a.flags, rejR), "setRoot", NewId(Cur), Null, 0, FALSE)

AddGroup ==
    /\ model # Null
    /\ \E p \in Groups, addR \in BOOLEAN, a \in NodeArgs,
          reject \in BOOLEAN, rejR \in BOOLEAN :
           /\ rejR => (addR /\ ~reject)
           /\ reject => (~addR /\ a.data = Undefined)
           /\ Cardinality(Free) >= (IF reject THEN 0 ELSE IF addR /\ ~rejR THEN 2 ELSE 1)
           /\ Install(addGroup(Cur, p, addR, a.data, a.flags, reject, rejR), "addGroup",
                      Null, p, 0, reject)

AddRule ==
    /\ model # Null
    /\ \E p \in Groups, a \in NodeArgs, reject \in BOOLEAN :
           /\ reject => a.data = Undefined
           /\ Cardinality(Free) >= (IF reject THEN 0 ELSE 1)
           /\ Install(addRule(Cur, p, a.data, a.flags, reject), "addRule", Null, p, 0, reject)

DeleteRule ==
    /\ model # Null
    /\ \E r \in Created, reject \in BOOLEAN :
           /\ kind[r] = "rule"
           /\ Install(deleteRule(Cur, r, reject), "deleteRule", r, Null, 0,
                      reject /\ ~Flag(Cur, r, "no_delete"))

DeleteGroup ==
    /\ model # Null
    /\ \E g \in Groups, reject \in BOOLEAN :
           Install(deleteGroup(Cur, g, reject), "deleteGroup", g, Null, 0,
                   reject /\ ~isRoot(Cur, g))

Reset ==
    /\ model # Null
    /\ \E reject \in BOOLEAN, rejR \in BOOLEAN :
           /\ rejR => (~reject /\ root # Null)
           /\ Cardinality(Free) >= (IF reject \/ rejR \/ root = Null THEN 0 ELSE 1)
           /\ Install(reset(Cur, reject, rejR), "reset", Null, Null, 0, reject)

Clear ==
    /\ model # Null
    /\ \E reject \in BOOLEAN :
           Install(clear(Cur, reject), "clear", Null, Null, 0, reject)

\* init() is the last step of the construction: it runs once, first
InitBuilder ==
    /\ model # Null
    /\ lastOp.op = "new"
    /\ \E rejR \in BOOLEAN :
          /\ Cardinality(Free) >= (IF rejR THEN 1 ELSE 2)
          /\ Install(init(Cur, rejR), "init", NewId(Cur), Null, 0, FALSE)

Destroy ==
    /\ model # Null
    /\ \E reject \in BOOLEAN :
          Install(destroy(Cur, reject), "destroy", Null, Null, 0, reject)

Next ==
    \/ InitBuilder
    \/ Destroy
    \/ SetRoot
    \/ AddGroup
    \/ AddRule
    \/ DeleteRule
    \/ DeleteGroup
    \/ Reset
    \/ Clear
    \/ InsertNode
    \/ GroupAddRule
    \/ GroupAddGroup
    \/ Drop
    \/ Empty
    \/ Move
    \/ RemoveNode

Spec == Init /\ [][Next]_vars

\* the life of a builder through the operations that draw or reset
\* identifiers
IdNext ==
    \/ InitBuilder
    \/ SetRoot
    \/ AddGroup
    \/ AddRule
    \/ Reset
    \/ Clear

IdSpec == IdInit /\ [][IdNext]_vars

\* ---- actions: edits, validation, export and import ----
MoveAtEnd ==
    /\ model # Null
    /\ \E n \in Created, ta \in {<<>>} \cup {<<g>> : g \in Groups} :
           Install(moveAtEnd(Cur, n, ta), "moveAtEnd", n, TargetOrDefault(Cur, n, ta),
                   0, FALSE)

\* the change handler of a rule's filter select, whose options are "-1" and
\* the ids of the configured filters (bindEvents, lines 762-768)
ChangeFilter ==
    /\ model # Null
    /\ \E r \in Created, v \in {"-1", "f1", "f2"} :
           /\ kind[r] = "rule"
           /\ LET f == getFilterById(configured_filters, v, TRUE)
              IN Install(IF f.err # ""
                         THEN [Cur EXCEPT !.err = f.err]
                         ELSE [Cur EXCEPT !.filter[r] = IF f.ret = 0 THEN "null"
                                                        ELSE configured_filters[f.ret].id],
                         "changeFilter", r, Null, 0, FALSE)

\* the change handler of a group's condition inputs (bindEvents, lines 754-760)
ChangeCondition ==
    /\ model # Null
    /\ \E g \in Groups, v \in {"AND", "OR"} :
           Install([Cur EXCEPT !.condition[g] = v], "changeCondition", g, Null, 0, FALSE)

UpdateRuleFilter ==
    /\ model # Null
    /\ \E r \in Created, previousFilter \in {"null", "f1", "f2"} :
           /\ kind[r] = "rule"
           /\ Install(updateRuleFilter(Cur, r, previousFilter), "updateRuleFilter",
                      r, Null, 0, FALSE)

TriggerValidationError ==
    /\ model # Null
    /\ \E n \in Created, prevented \in BOOLEAN :
           Install(triggerValidationError(Cur, n, "no_filter", prevented),
                   "triggerValidationError", n, Null, 0, prevented)

ClearErrors ==
    /\ model # Null
    /\ \E na \in {<<>>} \cup {<<n>> : n \in Created} :
           Install(clearErrors(Cur, na), "clearErrors",
                   IF na = <<>> THEN root ELSE na[1], Null, 0, FALSE)

Validate ==
    /\ model # Null
    /\ \E verdict \in BOOLEAN :
           Install(validate(Cur, verdict), "validate", Null, Null, 0, FALSE)

GetRules ==
    /\ model # Null
    /\ \E allow_invalid \in BOOLEAN, verdict \in BOOLEAN :
           Install(getRules(Cur, allow_invalid, verdict), "getRules", Null, Null, 0, FALSE)

\* setRules(data): data is the object the last call, a getRules, returned,
\* or an object describing one empty group
SetRules ==
    /\ model # Null
    /\ \/ /\ lastOp.op = "getRules"
          /\ lastOp.res = "object"
          /\ Install(setRules(Cur, io.out, TRUE), "setRules", Null, Null, 0, FALSE)
       \/ Install(setRules(Cur, <<[kind |-> "group", condition |-> "AND",
                                   filter |-> Undefined, data |-> Undefined,
                                   rules |-> <<>>]>>, FALSE),
                  "setRules", Null, Null, 0, FALSE)

\* a builder under construction of its tree, edits, validation and
\* export / import
EditNext ==
    \/ InitBuilder
    \/ GroupAddGroup
    \/ AddRule
    \/ MoveAtEnd
    \/ ChangeFilter
    \/ ChangeCondition
    \/ UpdateRuleFilter
    \/ TriggerValidationError
    \/ ClearErrors
    \/ Validate
    \/ GetRules
    \/ SetRules

EditSpec == Init /\ [][EditNext]_vars

\* ---- an EventEmitter on its own: on, off and emit called in any order ----
\* Listeners are callbacks that do not call on/off on the emitter that is
\* delivering to them.
On ==
    \E e \in EmEvents, l \in Listeners :
        /\ Len(listeners[e]) < MaxRegs
        /\ listeners' = EventEmitter_on(listeners, e, l)
        /\ calls' = <<>>
        /\ emOp' = [op |-> "on", event |-> e, listener |-> l, args |-> "none",
                     does |-> NoOff]
        /\ UNCHANGED <<el, builder, pure>>

Off ==
    \E e \in EmEvents, l \in Listeners :
        /\ listeners' = EventEmitter_off(listeners, e, l)
        /\ calls' = <<>>
        /\ emOp' = [op |-> "off", event |-> e, listener |-> l, args |-> "none",
                     does |-> NoOff]
        /\ UNCHANGED <<el, builder, pure>>

Emit ==
    \E e \in EmEvents, a \in EmArgs :
        /\ calls' = EventEmitter_emit(listeners, e, a)
        /\ emOp' = [op |-> "emit", event |-> e, listener |-> "none", args |-> a,
                     does |-> NoOff]
        /\ UNCHANGED <<listeners, el, builder, pure>>

\* emit, delivering to listeners of which one at least calls off()
EmitOff ==
    \E e \in EmEvents, a \in EmArgs, does \in [Listeners -> {"none"} \cup Listeners] :
        /\ does # NoOff
        /\ LET r == EventEmitter_emit_live(listeners, e, a, does, 1, Len(listeners[e]))
           IN /\ calls' = r.calls
              /\ listeners' = r.listeners
        /\ emOp' = [op |-> "emit_off", event |-> e, listener |-> "none", args |-> a,
                     does |-> does]
        /\ UNCHANGED <<el, builder, pure>>

\* once(type, cb) on the builder
Once ==
    \E cb \in Cbs :
        /\ Len(el.count) < MaxOnce
        /\ el' = [once(el, cb) EXCEPT !.op = "once"]
        /\ UNCHANGED <<listeners, calls, emOp, builder, pure>>

\* trigger(type) on the builder
Trigger ==
    /\ el' = [dispatchEvent(el, el.reg, 1) EXCEPT !.op = "trigger"]
    /\ UNCHANGED <<listeners, calls, emOp, builder, pure>>

EmitterNext ==
    \/ On
    \/ Off
    \/ Emit
    \/ EmitOff

EmitterSpec == Init /\ [][EmitterNext]_vars

\* the builder's element under once() and trigger() for one event type
OnceNext ==
    \/ Once
    \/ Trigger

OnceSpec == Init /\ [][OnceNext]_vars

\* ---- one call of parseRuleFlags or parseGroupFlags on any arguments, ----
\* ---- then one call of getRuleFlags or getGroupFlags on its result    ----
ParseInputs ==
    {[kind |-> k, defaults |-> d, readonly |-> ro, has_flags |-> h, given |-> g,
      done |-> FALSE, result |-> NoFlags, after |-> NoFlags,
      got_done |-> FALSE, all |-> FALSE, got |-> NoFlags, got_undef |-> {}] :
        k \in {"rule", "group"}, d \in FlagSets, ro \in BOOLEAN,
        h \in BOOLEAN, g \in FlagSets}

FlagsInit ==
    /\ FreshBuilder
    /\ FreshEmitter
    /\ history = FALSE
    /\ pf \in {i \in ParseInputs : ~i.has_flags => i.given = NoFlags}
    /\ reg = NoLookup
    /\ chk = NoCheck
    /\ vv = NoValidation

ParseRuleFlags ==
    /\ pf.kind = "rule"
    /\ ~pf.done
    /\ LET r == parseRuleFlags(pf.defaults, [readonly |-> pf.readonly,
                                              has_flags |-> pf.has_flags,
                                              flags |-> pf.given])
       IN pf' = [pf EXCEPT !.done = TRUE, !.result = r.flags, !.after = r.settings]
    /\ UNCHANGED <<builder, emitter, reg, chk, vv>>

ParseGroupFlags ==
    /\ pf.kind = "group"
    /\ ~pf.done
    /\ LET r == parseGroupFlags(pf.defaults, [readonly |-> pf.readonly,
                                               has_flags |-> pf.has_flags,
                                               flags |-> pf.given])
       IN pf' = [pf EXCEPT !.done = TRUE, !.result = r.flags, !.after = r.settings]
    /\ UNCHANGED <<builder, emitter, reg, chk, vv>>

GetRuleFlags ==
    /\ pf.kind = "rule"
    /\ pf.done
    /\ ~pf.got_done
    /\ \E all \in BOOLEAN :
          LET r == getRuleFlags(pf.after, pf.result, all)
          IN pf' = [pf EXCEPT !.got_done = TRUE, !.all = all,
                              !.got = r.ret, !.got_undef = r.undef]
    /\ UNCHANGED <<builder, emitter, reg, chk, vv>>

GetGroupFlags ==
    /\ pf.kind = "group"
    /\ pf.done
    /\ ~pf.got_done
    /\ \E all \in BOOLEAN :
          LET r == getGroupFlags(pf.after, pf.result, all)
          IN pf' = [pf EXCEPT !.got_done = TRUE, !.all = all,
                              !.got = r.ret, !.got_undef = r.undef]
    /\ UNCHANGED <<builder, emitter, reg, chk, vv>>

FlagsNext ==
    \/ ParseRuleFlags
    \/ ParseGroupFlags
    \/ GetRuleFlags
    \/ GetGroupFlags

FlagsSpec == FlagsInit /\ [][FlagsNext]_vars

\* ---- one lookup in a registry of filters and operators ----
\* The registered lists have passed checkFilters / checkOperators: the ids
\* and the types are non-empty and unique.  "-1" is such an id.
OpTypes == {"equal", "not_equal", "-1"}
OperatorLists ==
    {ops \in UNION {[1..n -> [type : OpTypes,
                              apply_to : {{"string"}, {"number", "boolean"}}]] :
                    n \in 0..MaxOps} :
        \A i, j \in 1..Len(ops) : ops[i].type = ops[j].type => i = j}
FilterLists ==
    {fs \in UNION {[1..n ->
            {[by_id |-> FALSE, id |-> "-1", type |-> "string",
              has_operators |-> FALSE, operators |-> <<>>],
             [by_id |-> FALSE, id |-> "price", type |-> "integer",
              has_operators |-> FALSE, operators |-> <<>>],
             [by_id |-> FALSE, id |-> "price", type |-> "integer",
              has_operators |-> TRUE, operators |-> <<"not_equal", "equal">>]}] :
          n \in 0..2} :
        \A i, j \in 1..Len(fs) : fs[i].id = fs[j].id => i = j}
\* the argument of getOperators: a filter object or the id of a filter
FilterArgs ==
    {[by_id |-> FALSE, id |-> "name", type |-> t, has_operators |-> h, operators |-> a] :
        t \in {"string", "integer", "boolean"}, h \in BOOLEAN, a \in UNION {[1..n -> OpTypes] : n \in 0..MaxAllow}}
    \cup {[by_id |-> TRUE, id |-> i, type |-> "string",
           has_operators |-> FALSE, operators |-> <<>>] : i \in {"-1", "price", "name"}}
RegInit ==
    /\ FreshBuilder
    /\ FreshEmitter
    /\ history = FALSE
    /\ pf = NoParse
    /\ chk = NoCheck
    /\ vv = NoValidation
    /\ reg \in {[NoLookup EXCEPT !.operators = ops, !.filters = fs, !.after = ops] :
                    ops \in OperatorLists, fs \in FilterLists}

GetOperators ==
    /\ reg.op = "none"
    /\ \E arg \in {a \in FilterArgs : a.has_operators \/ a.operators = <<>>} :
          LET r == getOperators(reg.operators, reg.filters, arg)
          IN reg' = [reg EXCEPT !.op = "getOperators", !.arg = arg, !.result = r.result,
                                !.err = r.err, !.after = r.operators]
    /\ UNCHANGED <<builder, emitter, pf, chk, vv>>

GetFilterById ==
    /\ reg.op = "none"
    \* doThrow as passed: left out (the default applies), true or false
    /\ \E id \in {"-1", "price", "equal", "name"}, dt \in {"omitted", "true", "false"} :
          LET r == getFilterById(reg.filters, id, dt # "false")
          IN reg' = [reg EXCEPT !.op = "getFilterById", !.key = id, !.doThrow = dt,
                                !.ret = r.ret, !.err = r.err]
    /\ UNCHANGED <<builder, emitter, pf, chk, vv>>

GetOperatorByType ==
    /\ reg.op = "none"
    /\ \E type \in {"-1", "price", "equal", "name"}, dt \in {"omitted", "true", "false"} :
          LET r == getOperatorByType(reg.operators, type, dt # "false")
          IN reg' = [reg EXCEPT !.op = "getOperatorByType", !.key = type, !.doThrow = dt,
                                !.ret = r.ret, !.err = r.err]
    /\ UNCHANGED <<builder, emitter, pf, chk, vv>>

RegNext ==
    \/ GetOperators
    \/ GetFilterById
    \/ GetOperatorByType

RegSpec == RegInit /\ [][RegNext]_vars

\* ---- one call of checkFilters or of checkOperators on a supplied list ----
FilterDescs ==
    [id : {"", "a", "b"}, type : {"", "integer", "bogus"},
     input : {"", "radio", "function", "bogus"}, optgroup : {"", "g"},
     allow : {"none", "mixed"}, field : {""}, label : {""}]
OperatorDescs ==
    [str : {TRUE}, type : {"equal", "between", "bogus"}, nb_inputs : {-1},
     has_apply_to : {FALSE}, optgroup : {""}, origin : {"given"}]
    \cup [str : {FALSE}, type : {"", "equal", "like"}, nb_inputs : {-1, 1},
          has_apply_to : BOOLEAN, optgroup : {"", "g"}, origin : {"given"}]

CheckInit ==
    /\ FreshBuilder
    /\ FreshEmitter
    /\ history = FALSE
    /\ pf = NoParse
    /\ reg = NoLookup
    /\ vv = NoValidation
    /\ chk \in {[NoCheck EXCEPT !.which = "filters", !.given = fs, !.filters = fs] :
                   fs \in UNION {[1..n -> FilterDescs] : n \in 0..MaxList}}
               \cup
               {[NoCheck EXCEPT !.which = "operators", !.given_ops = ops, !.operators = ops] :
                   ops \in UNION {[1..n -> OperatorDescs] : n \in 0..MaxList}}

CheckFilters ==
    /\ chk.which = "filters"
    /\ chk.fn = "none"
    /\ chk' = [checkFilters(chk) EXCEPT !.fn = "checkFilters"]
    /\ UNCHANGED <<builder, emitter, pf, reg, vv>>

CheckOperators ==
    /\ chk.which = "operators"
    /\ chk.fn = "none"
    /\ chk' = [checkOperators(chk) EXCEPT !.fn = "checkOperators"]
    /\ UNCHANGED <<builder, emitter, pf, reg, vv>>

CheckNext ==
    \/ CheckFilters
    \/ CheckOperators

CheckSpec == CheckInit /\ [][CheckNext]_vars

\* ---- one call of validateValue or _validateValue on a rule and a value ----
\* undefined, the strings "", "9", "10" and "abc", the numbers 10 and 30,
\* and four arrays of strings
Slots == {One(v) : v \in {Undef, Str(<<>>), Str(<<57>>), Str(<<49, 48>>),
                          Str(<<97, 98, 99>>), Num(10), Num(30)}}
         \cup {Arr(<<>>), Arr(<<Str(<<97, 98, 99>>)>>),
               Arr(<<Str(<<57>>), Str(<<49, 48>>)>>),
               Arr(<<Str(<<>>), Str(<<57>>)>>)}
RuleInputs ==
    {[filter |-> [type |-> t, input |-> inp],
      validation |-> [allow_empty_value |-> a, has_range |-> hr, min |-> 2, max |-> 20,
                      callback |-> FALSE, callback_result |-> Valid],
      operator |-> [type |-> ot, nb_inputs |-> nb, multiple |-> m]] :
        t \in {"string", "integer", "double"}, inp \in {"text", "select"},
        a \in BOOLEAN, hr \in BOOLEAN, ot \in {"between", "equal"},
        nb \in {1, 2}, m \in BOOLEAN}
RawInputs(nb) ==
    IF nb = 1
    THEN {[one |-> x, many |-> <<>>] : x \in Slots}
    ELSE {[one |-> One(Undef), many |-> <<x, y>>] : x \in Slots, y \in Slots}
ValidateInit ==
    /\ FreshBuilder
    /\ FreshEmitter
    /\ history = FALSE
    /\ pf = NoParse
    /\ reg = NoLookup
    /\ chk = NoCheck
    /\ vv \in {[NoValidation EXCEPT !.rule = r, !.raw = w] :
                  r \in RuleInputs, w \in UNION {RawInputs(nb) : nb \in {1, 2}}}
    /\ vv.raw \in RawInputs(vv.rule.operator.nb_inputs)

\* _validateValue called on its own
ValidateBuiltin ==
    /\ vv.fn = "none"
    /\ LET r == _validateValue(vv.rule, vv.raw)
       IN vv' = [vv EXCEPT !.fn = "_validateValue", !.result = r.res,
                           !.builtin = TRUE, !.seen = r.seen]
    /\ UNCHANGED <<builder, emitter, pf, reg, chk>>

\* validateValue on the same rule, whose filter may declare a callback
ValidateValue ==
    /\ vv.fn = "none"
    /\ \E cb \in BOOLEAN, cr \in {Valid, Invalid("custom", <<>>)},
          sub \in {"none", "prevent", "replace"} :
          /\ ~cb => cr = Valid
          /\ LET rule == [vv.rule EXCEPT !.validation.callback = cb,
                                         !.validation.callback_result = cr]
                 r == validateValue(rule, vv.raw, sub)
             IN vv' = [vv EXCEPT !.fn = "validateValue", !.rule = rule,
                                 !.subscriber = sub, !.result = r.result,
                                 !.builtin = r.builtin, !.seen = r.seen]
    /\ UNCHANGED <<builder, emitter, pf, reg, chk>>

ValidateNext ==
    \/ ValidateBuiltin
    \/ ValidateValue

ValidateSpec == ValidateInit /\ [][ValidateNext]_vars

\* ---- helpers for the properties ----
Occurrences(seq, x) == Cardinality({i \in 1..Len(seq) : seq[i] = x})

IsChildOf(n, g) == Occurrences(rules[g], n) > 0

\* the drop events for the nodes of the set S, in delivery order
DropsOf(evs, S) ==
    LET sel == SelectSeq(evs, LAMBDA e : e.type = "drop" /\ e.node \in S)
    IN [i \in 1..Len(sel) |-> sel[i].node]

EventsOfType(evs, type) == SelectSeq(evs, LAMBDA e : e.type = type)

SeqSet(seq) == {seq[i] : i \in 1..Len(seq)}

\* position of the first drop event of node n, 0 when there is none
DropPos(evs, n) ==
    IF \E i \in 1..Len(evs) : evs[i].type = "drop" /\ evs[i].node = n
    THEN CHOOSE i \in 1..Len(evs) :
            /\ evs[i].type = "drop" /\ evs[i].node = n
            /\ \A j \in 1..(i - 1) : ~(evs[j].type = "drop" /\ evs[j].node = n)
    ELSE 0

\* position of the first event of a type published on an object, 0 when
\* there is none
EventPos(evs, on, type) ==
    IF \E i \in 1..Len(evs) : evs[i].on = on /\ evs[i].type = type
    THEN CHOOSE i \in 1..Len(evs) :
            /\ evs[i].on = on /\ evs[i].type = type
            /\ \A j \in 1..(i - 1) : ~(evs[j].on = on /\ evs[j].type = type)
    ELSE 0

\* ---- C1 ----
\* C1: every created node has level = parent.level + 1 when it has a parent
\* and level = 1 when it has none.
C1_LevelMatchesDepth ==
    \A n \in Created :
        level[n] = IF parent[n] # Null THEN level[parent[n]] + 1 ELSE 1

\* ---- C2 ----
\* C2: a node's parent is group G exactly when the node occurs in G's
\* children list, and it occurs there exactly once; a node with no parent
\* occurs in no children list.
C2_ParentIffChild ==
    \A n \in Created :
        \A g \in Groups :
            /\ Occurrences(rules[g], n) <= 1
            /\ (parent[n] = g) <=> IsChildOf(n, g)

\* ---- C3 ----
\* C3: dropping a group emits exactly one drop event for each node of its
\* subtree (the group included), every descendant's event comes before the
\* event of each of its ancestors, and afterwards no dropped node holds a
\* parent reference.
C3_DropGroupEventsAndParents ==
    [][ (lastOp'.op = "drop" /\ kind[lastOp'.node] = "group") =>
          LET g == lastOp'.node
              D == Subtree(g)
          IN /\ Len(EventsOfType(events', "drop")) = Cardinality(D)
             /\ \A d \in D : Len(DropsOf(events', {d})) = 1
             /\ \A a \in D : \A d \in Subtree(a) \ {a} :
                    DropPos(events', d) < DropPos(events', a)
             /\ \A d \in D : parent'[d] = Null ]_vars

\* ---- C4 ----
\* C4: while a group is dropped, the direct children of every group of its
\* subtree are dropped last child first, and when the drop event of a group
\* is delivered that group has no children left.
C4_DropReverseAndChildless ==
    [][ (lastOp'.op = "drop" /\ kind[lastOp'.node] = "group") =>
          /\ \A h \in Subtree(lastOp'.node) :
                kind[h] = "group" =>
                    DropsOf(events', SeqSet(rules[h])) = Reverse(rules[h])
          /\ \A i \in 1..Len(events') :
                (events'[i].type = "drop" /\ kind[events'[i].node] = "group")
                    => events'[i].kids = <<>> ]_vars

C4_Witness ==
    /\ lastOp.op = "drop"
    /\ kind[lastOp.node] = "group"
    /\ Len(events) = 3
    /\ events[1].node > events[2].node
    /\ events[3].node = lastOp.node

\* ---- C5 ----
\* C5: Group.insertNode with an index outside [0, length] fails with a
\* BoundsError, leaves the children list and node.parent unchanged and emits
\* no add event.
C5_InsertOutOfBoundsFails ==
    [][ (/\ lastOp'.op = "insertNode"
         /\ (lastOp'.index < 0 \/ lastOp'.index > Len(rules[lastOp'.target]))) =>
          /\ lastOp'.err = "BoundsError"
          /\ rules' = rules
          /\ parent' = parent
          /\ events' = <<>> ]_vars

\* ---- C6 ----
\* C6: an insertNode(node, index) with index in [0, length] (the default
\* being length) leaves node at position index, keeps the order of the other
\* children, sets node.parent to the group and emits exactly one
\* add(group, node, index) event, delivered when children[index] is node.
C6_InsertNodeInRange ==
    [][ (/\ lastOp'.op \in {"insertNode", "Group.addRule", "Group.addGroup"}
         /\ lastOp'.index >= 0
         /\ lastOp'.index <= Len(rules[lastOp'.target])) =>
          LET g == lastOp'.target
              n == lastOp'.node
              i == lastOp'.index
          IN /\ Len(rules'[g]) = Len(rules[g]) + 1
             /\ rules'[g][i + 1] = n
             /\ SpliceOut(rules'[g], i) = rules[g]
             /\ parent'[n] = g
             /\ lastOp'.ret = n
             /\ Len(events') = 1
             /\ events'[1].type = "add"
             /\ events'[1].node = n
             /\ events'[1].target = g
             /\ events'[1].index = i
             /\ events'[1].tkids = rules'[g]
             /\ events'[1].par = g ]_vars

C6_Witness ==
    /\ lastOp.op = "insertNode"
    /\ lastOp.index = 0
    /\ Len(rules[lastOp.target]) = 2
    /\ rules[lastOp.target][1] = lastOp.node
    /\ Len(events) = 1

\* ---- C7 ----
\* C7: move(target, index) on a node that has a parent removes it from its
\* old parent and leaves it at position index of target with parent = target,
\* emitting exactly one move(node, target, index) event; on a node without
\* parent it changes nothing and emits no move event.  The index is taken
\* within the bounds of the target's list once the node is removed.
C7_MoveRelocates ==
    [][ lastOp'.op = "move" =>
          LET n == lastOp'.node
              t == lastOp'.target
              i == lastOp'.index
              old == parent[n]
              room == Len(rules[t]) - Occurrences(rules[t], n)
          IN IF old # Null
             THEN (i >= 0 /\ i <= room) =>
                    /\ parent'[n] = t
                    /\ Len(rules'[t]) > i
                    /\ rules'[t][i + 1] = n
                    /\ Occurrences(rules'[t], n) = 1
                    /\ (old # t => Occurrences(rules'[old], n) = 0)
                    /\ Len(EventsOfType(events', "move")) = 1
                    /\ \A k \in 1..Len(events') :
                          events'[k].type = "move" =>
                             /\ events'[k].node = n
                             /\ events'[k].target = t
                             /\ events'[k].index = i
             ELSE /\ UNCHANGED tree
                  /\ EventsOfType(events', "move") = <<>> ]_vars

\* ---- C8 ----
\* C8: Group.empty() drops every direct child of the group, last child
\* first, emits no drop event for the group, leaves the group attached to
\* its parent, and leaves it with zero children.
C8_EmptyDropsChildrenOnly ==
    [][ lastOp'.op = "empty" =>
          LET g == lastOp'.node
          IN /\ DropsOf(events', SeqSet(rules[g])) = Reverse(rules[g])
             /\ DropsOf(events', {g}) = <<>>
             /\ Len(EventsOfType(events', "drop")) = Cardinality(Subtree(g)) - 1
             /\ \A c \in SeqSet(rules[g]) : parent'[c] = Null
             /\ rules'[g] = <<>>
             /\ parent'[g] = parent[g]
             /\ kind'[g] = kind[g]
             /\ \A p \in Groups : p # g /\ p \notin Subtree(g) => rules'[p] = rules[p] ]_vars

C8_Witness ==
    /\ lastOp.op = "empty"
    /\ Len(events) = 2
    /\ events[1].type = "drop"
    /\ events[2].type = "drop"
    /\ events[1].node # events[2].node
    /\ rules[lastOp.node] = <<>>
    /\ kind[lastOp.node] = "group"

\* ---- C9 ----
\* C9: when the before event of addRule, addGroup, deleteRule, deleteGroup,
\* reset or clear is rejected, the operation changes nothing (tree, root
\* reference, flags, condition, data, id counters); addRule and addGroup
\* return null, deleteRule and deleteGroup return false.
C9_RejectedChangesNothing ==
    [][ (/\ lastOp'.rejected
         /\ lastOp'.op \in {"addRule", "addGroup", "deleteRule", "deleteGroup",
                            "reset", "clear"}) =>
          /\ UNCHANGED <<tree, root, group_id, rule_id>>
          /\ lastOp'.err = ""
          /\ (lastOp'.op \in {"addRule", "addGroup"} => lastOp'.res = "null")
          /\ (lastOp'.op \in {"deleteRule", "deleteGroup"} => lastOp'.res = "false") ]_vars

C9_Witness ==
    /\ lastOp.rejected
    /\ lastOp.op = "addGroup"
    /\ lastOp.res = "null"
    /\ group_id > 0
    /\ Len(events) = 1
    /\ events[1].type = "beforeAddGroup"

\* ---- C10 ----
\* C10: whenever deleteGroup(group) returns false, the tree is exactly what
\* it was before the call: no descendant of the group has been removed.
C10_DeleteGroupAllOrNothing ==
    [][ (lastOp'.op = "deleteGroup" /\ lastOp'.res = "false") =>
          UNCHANGED <<tree, root>> ]_vars

C10_Witness ==
    /\ lastOp.op = "deleteGroup"
    /\ lastOp.res = "false"
    /\ parent[lastOp.node] # Null
    /\ \E r \in Subtree(lastOp.node) \ {lastOp.node} :
          /\ "no_delete" \in DOMAIN flags[r]
          /\ flags[r]["no_delete"]

\* ---- C11 ----
\* C11: deleteRule on a rule whose flags have no_delete = true returns
\* false, leaves the tree unchanged and publishes nothing: no drop event, no
\* before/after delete notification and no rulesChanged.
C11_NoDeleteRuleRefused ==
    [][ (lastOp'.op = "deleteRule" /\ Flag(Cur, lastOp'.node, "no_delete")) =>
          /\ lastOp'.res = "false"
          /\ lastOp'.err = ""
          /\ UNCHANGED <<tree, root, group_id, rule_id>>
          /\ events' = <<>> ]_vars

C11_Witness ==
    /\ lastOp.op = "deleteRule"
    /\ lastOp.res = "false"
    /\ ~lastOp.rejected
    /\ kind[lastOp.node] = "rule"
    /\ Flag(Cur, lastOp.node, "no_delete")
    /\ parent[lastOp.node] # Null
    /\ IsChildOf(lastOp.node, parent[lastOp.node])
    /\ events = <<>>

\* ---- C12 ----
\* C12: deleteGroup on the root group (the group without parent), or on a
\* group whose own flags have no_delete = true, returns false without
\* raising an exception, leaves the tree unchanged and emits no drop event.
C12_DeleteGroupRefused ==
    [][ (/\ lastOp'.op = "deleteGroup"
         /\ (parent[lastOp'.node] = Null \/ Flag(Cur, lastOp'.node, "no_delete"))) =>
          /\ lastOp'.res = "false"
          /\ lastOp'.err = ""
          /\ UNCHANGED <<tree, root>>
          /\ EventsOfType(events', "drop") = <<>> ]_vars

C12_Witness ==
    /\ lastOp.op = "deleteGroup"
    /\ lastOp.res = "false"
    /\ lastOp.err = ""
    /\ parent[lastOp.node] # Null
    /\ Flag(Cur, lastOp.node, "no_delete")
    /\ rules[lastOp.node] # <<>>

\* ---- C13 ----
\* C13: for a group that has a parent, with no descendant flagged no_delete
\* (and not flagged itself, the case of C12) and no before-delete event
\* rejected, deleteGroup returns true and afterwards the group and all its
\* descendants are detached: the group is no longer among its former
\* parent's children.
C13_DeleteGroupDetaches ==
    [][ (/\ lastOp'.op = "deleteGroup"
         /\ parent[lastOp'.node] # Null
         /\ \A d \in Subtree(lastOp'.node) : ~Flag(Cur, d, "no_delete")
         /\ ~lastOp'.rejected) =>
          LET g == lastOp'.node
          IN /\ lastOp'.res = "true"
             /\ lastOp'.err = ""
             /\ Occurrences(rules'[parent[g]], g) = 0
             /\ \A d \in Subtree(g) : parent'[d] = Null /\ rules'[d] = <<>> ]_vars

\* ---- C14 ----
\* C14: a builder addGroup(parent) whose beforeAddGroup event is not
\* rejected returns a new group that is a child of parent: the parent's
\* child count grows by exactly one and the returned group's parent is
\* parent.
C14_AddGroupAddsChild ==
    [][ (lastOp'.op = "addGroup" /\ ~lastOp'.rejected) =>
          LET g == lastOp'.ret
              p == lastOp'.target
          IN /\ lastOp'.res = "node"
             /\ kind[g] = "none"
             /\ kind'[g] = "group"
             /\ parent'[g] = p
             /\ Len(rules'[p]) = Len(rules[p]) + 1
             /\ Occurrences(rules'[p], g) = 1 ]_vars

\* ---- C15 ----
\* C15: across any sequence of addRule, addGroup, setRoot, reset and clear,
\* nextRuleId and nextGroupId never return an identifier that they returned
\* before: no operation draws an identifier that is already in the history
\* of the identifiers issued.
C15_IdsNeverReused == ~lastOp.reuse

\* ---- C16 ----
\* C16: after the final initialisation without rules (init calling setRoot)
\* model.root is the group created by setRoot, a non-null parentless group,
\* and it remains so until clear or destroy.
C16_ModelOwnsRoot ==
    /\ [](lastOp.op = "init" =>
            /\ root # Null
            /\ root = lastOp.node
            /\ kind[root] = "group"
            /\ parent[root] = Null)
    /\ [][ (root # Null /\ lastOp'.op \notin {"clear", "destroy"}) =>
            /\ root' = root
            /\ kind'[root] = "group"
            /\ parent'[root] = Null ]_vars

\* ---- C17 ----
\* C17: destroy() drops every node of the tree before the builder releases
\* its model, whatever subscribers do (a rejected beforeClear included):
\* one drop event for each node that was attached (had a parent or
\* children), and no node has a parent or children once the model
\* reference is gone.
C17_DestroyDropsEveryNode ==
    [][ lastOp'.op = "destroy" =>
          /\ model' = Null
          /\ \A n \in Created :
                (parent[n] # Null \/ rules[n] # <<>>) =>
                    Len(DropsOf(events', {n})) = 1
          /\ \A n \in Created : parent'[n] = Null /\ rules'[n] = <<>> ]_vars

\* ---- C19 ----
\* C19: the Model re-exports the tree-level events: every add, move and
\* drop published on a group or rule is also published on the Model, so a
\* subscriber registered on the Model is notified of it.
C19_ModelReexportsTreeEvents ==
    \A i \in 1..Len(events) :
        (events[i].type \in {"add", "move", "drop"} /\ events[i].on \in Nodes) =>
            \E j \in 1..Len(events) :
                /\ events[j].on = TheModel
                /\ events[j].type = events[i].type
                /\ events[j].node = events[i].node
                /\ events[j].target = events[i].target
                /\ events[j].index = events[i].index

\* ---- C18 ----
\* C18: emit(event, args) calls the subscribers of that event, one call per
\* registration, in the order in which on() registered them (on() puts a
\* registration after those the event already has), calls no subscriber of
\* another event, and every call has been made when emit returns.
C18_EmitInRegistrationOrder ==
    [][ /\ emOp'.op = "on" =>
              /\ listeners'[emOp'.event] = Append(listeners[emOp'.event], emOp'.listener)
              /\ \A e \in EmEvents \ {emOp'.event} : listeners'[e] = listeners[e]
        /\ emOp'.op = "emit" =>
              /\ Len(calls') = Len(listeners[emOp'.event])
              /\ \A i \in 1..Len(calls') :
                    /\ calls'[i].listener = listeners[emOp'.event][i]
                    /\ calls'[i].args = emOp'.args
              /\ listeners' = listeners ]_vars

C18_Witness ==
    /\ emOp.op = "emit"
    /\ Len(calls) = 3
    /\ calls[1].listener # calls[2].listener
    /\ \E e \in EmEvents \ {emOp.event} :
          /\ listeners[e] # <<>>
          /\ listeners[e] # listeners[emOp.event]

\* ---- C20 ----
\* C20: parseRuleFlags and parseGroupFlags resolve every flag by strict
\* precedence: the explicit per-node value when one is given; otherwise true
\* when the entity is readonly and the flag is in the readonly-forced set;
\* otherwise the configured default (absent when there is none).  The
\* configured default flag set is not modified.
C20_FlagPrecedence ==
    pf.done =>
        LET Forced == IF pf.kind = "rule"
                      THEN {"filter_readonly", "operator_readonly",
                            "value_readonly", "no_delete"}
                      ELSE {"condition_readonly", "no_add_rule",
                            "no_add_group", "no_delete"}
            Known == FlagNames \cup {"filter_readonly", "operator_readonly",
                                     "value_readonly", "no_delete",
                                     "condition_readonly", "no_add_rule",
                                     "no_add_group"}
        IN /\ DOMAIN pf.result \subseteq Known
           /\ \A k \in Known :
                 IF pf.has_flags /\ k \in DOMAIN pf.given
                 THEN k \in DOMAIN pf.result /\ pf.result[k] = pf.given[k]
                 ELSE IF pf.readonly /\ k \in Forced
                      THEN k \in DOMAIN pf.result /\ pf.result[k] = TRUE
                      ELSE IF k \in DOMAIN pf.defaults
                           THEN k \in DOMAIN pf.result /\ pf.result[k] = pf.defaults[k]
                           ELSE k \notin DOMAIN pf.result
           /\ pf.after = pf.defaults

C20_Witness ==
    /\ pf.done
    /\ pf.kind = "rule"
    /\ pf.readonly
    /\ pf.has_flags
    /\ DOMAIN pf.given = {"no_delete"}
    /\ pf.given["no_delete"] = FALSE
    /\ DOMAIN pf.defaults = {"filter_readonly", "condition_readonly"}
    /\ pf.defaults["filter_readonly"] = FALSE
    /\ pf.result["no_delete"] = FALSE
    /\ pf.result["filter_readonly"] = TRUE
    /\ pf.result["condition_readonly"] = pf.defaults["condition_readonly"]

\* ---- C21 ----
\* C21: getRuleFlags / getGroupFlags with all = true return a copy of the
\* full effective set; with all = false they return exactly the flags of
\* the effective set whose value differs from the default baseline, so that
\* overlaying the result on the defaults reproduces the effective set.
C21_FlagsDiffRoundTrip ==
    pf.got_done =>
        /\ pf.got_undef = {}
        /\ IF pf.all
           THEN pf.got = pf.result
           ELSE /\ DOMAIN pf.got =
                      {k \in DOMAIN pf.result :
                          k \notin DOMAIN pf.after \/ pf.result[k] # pf.after[k]}
                /\ \A k \in DOMAIN pf.got : pf.got[k] = pf.result[k]
                /\ Assign(pf.after, pf.got) = pf.result

\* the filter that a call of getOperators is about: the object given, or the
\* registered filter that has the id given
C22_Filter ==
    IF reg.arg.by_id
    THEN reg.filters[CHOOSE i \in 1..Len(reg.filters) : reg.filters[i].id = reg.arg.id]
    ELSE reg.arg

\* C22 as amended: getOperators(filter) returns, when the filter declares an
\* allow-list, exactly the registered operators whose type is in the list, in
\* the order of the allow-list whatever the order of the registered list;
\* otherwise every registered operator whose apply_to contains the category
\* that QueryBuilder.types gives for the filter's type, in the order of the
\* registered list.  The registered list is left as it was.
C22_GetOperators ==
    (reg.op = "getOperators" /\ reg.err = "") =>
        LET f == C22_Filter
            ops == reg.operators
            res == reg.result
        IN /\ reg.after = ops
           /\ \A a, b \in 1..Len(res) : res[a] = res[b] => a = b
           /\ IF f.has_operators
              THEN /\ SeqSet(res) = {i \in 1..Len(ops) : ops[i].type \in SeqSet(f.operators)}
                   /\ \A a, b \in 1..Len(res) :
                         a < b => IndexOf(f.operators, ops[res[a]].type)
                                    < IndexOf(f.operators, ops[res[b]].type)
              ELSE /\ SeqSet(res) = {i \in 1..Len(ops) : types[f.type] \in ops[i].apply_to}
                   /\ \A a, b \in 1..Len(res) : a < b => res[a] < res[b]

\* C22 witness: the allow-list ["not_equal", "equal"] on a registered list
\* holding equal before not_equal yields not_equal, then equal.
C22_Witness ==
    /\ reg.op = "getOperators"
    /\ reg.err = ""
    /\ ~reg.arg.by_id
    /\ reg.arg.has_operators
    /\ reg.arg.operators = <<"not_equal", "equal">>
    /\ Len(reg.operators) = 3
    /\ reg.operators[1].type = "equal"
    /\ reg.operators[3].type = "not_equal"
    /\ reg.result = <<3, 1>>
    /\ reg.after = reg.operators

\* C22 as stated: without an allow-list the result is every registered
\* operator whose apply_to contains the filter's type, in the order of the
\* registered list; with one, the operators of the list in its order.
C22_GetOperatorsByType ==
    (reg.op = "getOperators" /\ reg.err = "") =>
        LET f == C22_Filter
            ops == reg.operators
            res == reg.result
        IN /\ reg.after = ops
           /\ \A a, b \in 1..Len(res) : res[a] = res[b] => a = b
           /\ IF f.has_operators
              THEN /\ SeqSet(res) = {i \in 1..Len(ops) : ops[i].type \in SeqSet(f.operators)}
                   /\ \A a, b \in 1..Len(res) :
                         a < b => IndexOf(f.operators, ops[res[a]].type)
                                    < IndexOf(f.operators, ops[res[b]].type)
              ELSE /\ SeqSet(res) = {i \in 1..Len(ops) : f.type \in ops[i].apply_to}
                   /\ \A a, b \in 1..Len(res) : a < b => res[a] < res[b]

\* C23: getFilterById and getOperatorByType return null for the key "-1"
\* whatever doThrow is, even when an entry with that key is registered; for
\* another key they return the first registered entry with that key; when
\* there is none they throw if doThrow is true or left out, and return null
\* if doThrow is false.
C23_Lookups ==
    reg.op \in {"getFilterById", "getOperatorByType"} =>
        LET hits == IF reg.op = "getFilterById"
                    THEN {i \in 1..Len(reg.filters) : reg.filters[i].id = reg.key}
                    ELSE {i \in 1..Len(reg.operators) : reg.operators[i].type = reg.key}
        IN IF reg.key = "-1"
           THEN reg.ret = 0 /\ reg.err = ""
           ELSE IF hits # {}
                THEN reg.err = "" /\ reg.ret \in hits /\ \A h \in hits : reg.ret <= h
                ELSE IF reg.doThrow # "false"
                     THEN reg.err # ""
                     ELSE reg.ret = 0 /\ reg.err = ""

\* C23 witness: the filter "-1" is registered and looked up with doThrow
\* left out; the lookup returns null without an error.
C23_Witness ==
    /\ reg.op = "getFilterById"
    /\ reg.key = "-1"
    /\ reg.doThrow = "omitted"
    /\ \E i \in 1..Len(reg.filters) : reg.filters[i].id = "-1"
    /\ reg.ret = 0
    /\ reg.err = ""

\* the catalog entry that an inline descriptor of the supplied list inherits
\* from, as a set (empty when its type is not in the catalog)
C24_Inherited(o) ==
    IF o.type \in DOMAIN OPERATORS THEN {OPERATORS[o.type]} ELSE {}

\* C24 as amended: checkOperators throws for every inline descriptor that
\* lacks nb_inputs or apply_to once it has inherited the fields of the catalog
\* entry of its type, if there is one, for every string key absent from the
\* catalog and for every type that occurs twice in the list; when it does
\* not throw, a string key has become a new object that copies the catalog
\* entry, never the catalog's own object.
C24_CheckOperatorsAfterInheriting ==
    chk.fn = "checkOperators" =>
        LET g == chk.given_ops
            lacks(o) == /\ ~o.str
                        /\ \/ o.nb_inputs = -1 /\ \A e \in C24_Inherited(o) : e.nb_inputs = -1
                           \/ ~o.has_apply_to /\ \A e \in C24_Inherited(o) : ~e.has_apply_to
        IN /\ (\E i \in 1..Len(g) : lacks(g[i])) => chk.err # ""
           /\ (\E i \in 1..Len(g) : g[i].str /\ g[i].type \notin DOMAIN OPERATORS)
                 => chk.err # ""
           /\ (\E i, j \in 1..Len(g) : i # j /\ g[i].type = g[j].type) => chk.err # ""
           /\ chk.err = "" =>
                 \A i \in 1..Len(g) :
                    g[i].str =>
                       /\ chk.operators[i].origin = "copy"
                       /\ [chk.operators[i] EXCEPT !.origin = "catalog", !.optgroup = ""]
                             = OPERATORS[g[i].type]

\* C24 witness: an inline descriptor of a type unknown to the catalog gives
\* no nb_inputs, after a string key that was resolved; the call throws.
C24_Witness ==
    /\ chk.fn = "checkOperators"
    /\ Len(chk.given_ops) = 2
    /\ chk.given_ops[1].str
    /\ chk.given_ops[1].type = "equal"
    /\ chk.operators[1].origin = "copy"
    /\ ~chk.given_ops[2].str
    /\ chk.given_ops[2].type = "like"
    /\ chk.given_ops[2].nb_inputs = -1
    /\ chk.err = "Missing nb_inputs and/or apply_to"

\* C24 as stated: checkOperators throws for every inline descriptor that
\* itself gives no nb_inputs or no apply_to, for every string key absent from
\* the catalog and for every type that occurs twice.
C24_CheckOperators ==
    chk.fn = "checkOperators" =>
        LET g == chk.given_ops
        IN /\ (\E i \in 1..Len(g) :
                  ~g[i].str /\ (g[i].nb_inputs = -1 \/ ~g[i].has_apply_to)) => chk.err # ""
           /\ (\E i \in 1..Len(g) : g[i].str /\ g[i].type \notin DOMAIN OPERATORS)
                 => chk.err # ""
           /\ (\E i, j \in 1..Len(g) : i # j /\ g[i].type = g[j].type) => chk.err # ""

\* C25: when checkFilters or checkOperators throws, the supplied list and its
\* descriptors, settings.optgroups and the has_optgroup status are as they
\* were before the call.
C25_NoPartialMutation ==
    (chk.fn # "none" /\ chk.err # "") =>
        /\ chk.filters = chk.given
        /\ chk.operators = chk.given_ops
        /\ chk.optgroups = {}
        /\ ~chk.has_optgroup
        /\ ~chk.has_operator_optgroup

\* ---- helpers for the properties of the validation ----
\* the value as _validateValue scans it, and its slots
VvValue == IF vv.rule.operator.nb_inputs = 1 THEN <<vv.raw.one>> ELSE vv.raw.many
VvSlot(i) == SlotAt(VvValue, i)
VvSlots == 1..vv.rule.operator.nb_inputs
VvChoice == vv.rule.filter.input \in {"radio", "checkbox", "select"}
\* slot i holds several values though the operator is not multiple
VvSeveral(i) == ~vv.rule.operator.multiple /\ VvSlot(i).arr /\ Len(VvSlot(i).items) > 1
\* the emptiness and per-type checks in the order of the scan: <<i, j>> is
\* value j of the free-form slot i, <<i, 0>> the selection of slot i
VvChecks ==
    IF VvChoice
    THEN {<<i, 0>> : i \in VvSlots}
    ELSE UNION {{<<i, j>> : j \in 1..Len(VvSlot(i).items)} : i \in VvSlots}
VvError(p) ==
    IF p[2] = 0
    THEN IF slotEmpty(VvSlot(p[1])) /\ ~vv.rule.validation.allow_empty_value
         THEN Invalid(vv.rule.filter.input \o "_empty", <<>>)
         ELSE Valid
    ELSE checkVal(vv.rule, VvSlot(p[1]).items[p[2]])
VvBefore(p, q) == p[1] < q[1] \/ (p[1] = q[1] /\ p[2] < q[2])
VvFailing == {p \in VvChecks : ~VvError(p).ok}
VvFirstFailing == CHOOSE p \in VvFailing : \A q \in VvFailing : q = p \/ VvBefore(p, q)

\* C26: between on a number-like filter with two inputs, both values passing
\* the per-type check: the built-in validator returns
\* [<filter type>_between_invalid, value[0], value[1]] exactly when value[0]
\* is numerically greater than value[1], and true otherwise.
C26_BetweenInvalidIffGreater ==
    (/\ vv.fn = "_validateValue"
     /\ vv.rule.operator.type = "between"
     /\ vv.rule.operator.nb_inputs = 2
     /\ types[vv.rule.filter.type] = "number"
     /\ ~VvSlot(1).arr
     /\ ~VvSlot(2).arr
     /\ validateByType(vv.rule.filter, VvSlot(1).items[1], vv.rule.validation).ok
     /\ validateByType(vv.rule.filter, VvSlot(2).items[1], vv.rule.validation).ok) =>
        vv.result = IF parseFloat(VvSlot(1).items[1]).n > parseFloat(VvSlot(2).items[1]).n
                    THEN Invalid(vv.rule.filter.type \o "_between_invalid",
                                 <<VvSlot(1), VvSlot(2)>>)
                    ELSE Valid

\* C27: the built-in validator returns <type>_between_invalid only when both
\* endpoints pass the per-type checker, whatever the input kind and the
\* validation policy.
C27_BetweenInvalidOnlyAfterTypeCheck ==
    (/\ vv.fn = "_validateValue"
     /\ vv.result.code = vv.rule.filter.type \o "_between_invalid") =>
        \A i \in {1, 2} :
           \A j \in 1..Len(VvSlot(i).items) :
              validateByType(vv.rule.filter, VvSlot(i).items[j], vv.rule.validation).ok

\* C28 as amended: when the operator is not multiple and one of its slots
\* holds more than one value, the built-in validator fails; the code is
\* operator_not_multiple when every slot before the first such slot passes
\* its own checks, and the failure of the first slot that fails otherwise.
C28_NotMultipleUnlessEarlierFailure ==
    (vv.fn = "_validateValue" /\ \E i \in VvSlots : VvSeveral(i)) =>
        LET i0 == CHOOSE i \in VvSlots : VvSeveral(i) /\ \A k \in VvSlots : VvSeveral(k) => i <= k
            early == {p \in VvFailing : p[1] < i0}
        IN /\ ~vv.result.ok
           /\ early = {} =>
                 /\ vv.result.code = "operator_not_multiple"
                 /\ vv.result.names[1] = vv.rule.operator.type
           /\ early # {} => vv.result = VvError(VvFirstFailing)

\* C28 witness: operator equal with one input, not multiple, and a value of
\* two selections; the validator returns operator_not_multiple.
C28_Witness ==
    /\ vv.fn = "_validateValue"
    /\ vv.rule.operator = [type |-> "equal", nb_inputs |-> 1, multiple |-> FALSE]
    /\ vv.raw.one.arr
    /\ Len(vv.raw.one.items) = 2
    /\ vv.result.code = "operator_not_multiple"
    /\ vv.result.names = <<"equal", "equal">>

\* C28 as stated: when the operator is not multiple and any of its slots holds
\* more than one value, the built-in validator fails with operator_not_multiple.
C28_NotMultipleAnySlot ==
    (vv.fn = "_validateValue" /\ \E i \in VvSlots : VvSeveral(i)) =>
        vv.result.code = "operator_not_multiple"

\* C29: when the filter declares a validation callback, the result of
\* validateValue is what the callback returns and the built-in validator is
\* not run; when it declares none, the result is the built-in validator's;
\* both provided no subscriber of validateValue replaces the result.
C29_CallbackOrBuiltin ==
    (vv.fn = "validateValue" /\ vv.subscriber # "replace") =>
        IF vv.rule.validation.callback
        THEN vv.result = vv.rule.validation.callback_result /\ ~vv.builtin
        ELSE vv.result = _validateValue(vv.rule, vv.raw).res /\ vv.builtin

\* C29 witness: the callback rejects a value that the built-in validator
\* would accept, and validateValue returns the callback's error.
C29_Witness ==
    /\ vv.fn = "validateValue"
    /\ vv.subscriber = "none"
    /\ vv.rule.validation.callback
    /\ vv.rule.validation.callback_result = Invalid("custom", <<>>)
    /\ _validateValue(vv.rule, vv.raw).res.ok
    /\ vv.result = Invalid("custom", <<>>)
    /\ ~vv.builtin

\* C30 as amended: the built-in validator stops at the first check that fails,
\* scanning the slots in order and, in a slot, first whether it holds several
\* values for an operator that is not multiple, then its values in order
\* (emptiness, then type); it returns the error of that check, and examines
\* no later slot or value.
C30_FirstFailingCheck ==
    (vv.fn = "_validateValue" /\ (VvFailing # {} \/ \E i \in VvSlots : VvSeveral(i))) =>
        LET bad == {i \in VvSlots : VvSeveral(i) \/ \E p \in VvFailing : p[1] = i}
            i0 == CHOOSE i \in bad : \A k \in bad : i <= k
            here == {p \in VvFailing : p[1] = i0}
            p0 == CHOOSE p \in here : \A q \in here : q = p \/ VvBefore(p, q)
        IN /\ \A a, b \in 1..Len(vv.seen) : a < b => VvBefore(vv.seen[a], vv.seen[b])
           /\ IF VvSeveral(i0)
              THEN /\ vv.result.code = "operator_not_multiple"
                   /\ SeqSet(vv.seen) = {p \in VvChecks : p[1] < i0}
              ELSE /\ vv.result = VvError(p0)
                   /\ SeqSet(vv.seen) = {p \in VvChecks : p = p0 \/ VvBefore(p, p0)}

\* C30 witness: the first of two values is not a number; its error is
\* returned and the second slot is not examined.
C30_Witness ==
    /\ vv.fn = "_validateValue"
    /\ vv.rule.filter = [type |-> "integer", input |-> "text"]
    /\ vv.rule.operator.nb_inputs = 2
    /\ vv.raw.many = <<One(Str(<<97, 98, 99>>)), One(Str(<<>>))>>
    /\ ~vv.rule.validation.allow_empty_value
    /\ vv.result = Invalid("number_nan", <<>>)
    /\ vv.seen = <<<<1, 1>>>>

\* C30 as stated: the error returned is the one of the first value, in the
\* order of the scan, that fails its emptiness or per-type check, and nothing
\* after that value is examined.
C30_FirstFailingValue ==
    (vv.fn = "_validateValue" /\ VvFailing # {}) =>
        /\ vv.result = VvError(VvFirstFailing)
        /\ SeqSet(vv.seen)
              = {p \in VvChecks : p = VvFirstFailing \/ VvBefore(p, VvFirstFailing)}

\* ---- C31 ----
\* the description of the subtree of node n: its condition or its filter,
\* its data, and the descriptions of its children in order
RECURSIVE C31_Shape(_)
C31_Shape(n) ==
    [kind |-> kind[n], condition |-> condition[n], filter |-> filter[n],
     data |-> data[n],
     rules |-> [i \in 1..Len(rules[n]) |-> C31_Shape(rules[n][i])]]

\* the tree of the group that init() created is valid and holds no error:
\* no group is empty, every rule has a filter, every error is null
C31_ValidTree ==
    /\ kind[1] = "group"
    /\ \A n \in Subtree(1) :
          /\ error[n] = "null"
          /\ kind[n] = "rule" => filter[n] # "null"
          /\ kind[n] = "group" => rules[n] # <<>>

\* C31: round-trip law: for any valid tree T with no validation errors,
\* setRules(getRules()) rebuilds a tree structurally equal to T: the object
\* that getRules returns and setRules receives describes T (same group
\* conditions, same rule filter and data, same child order).
C31_RoundTrip ==
    (lastOp.op = "setRules" /\ io.from_export /\ C31_ValidTree) =>
        io.given = <<C31_Shape(1)>>

\* ---- C32 ----
\* the tree of the group that init() created contains a validation failure:
\* a rule whose filter is unset
C32_Failure ==
    /\ kind[1] = "group"
    /\ \E n \in Subtree(1) : kind[n] = "rule" /\ filter[n] = "null"

\* C32: getRules always validates first (the validate notification precedes
\* any getRules notification); when the tree contains a validation failure
\* and allow_invalid is not set it returns no output (null) and publishes no
\* getRules notification, and it returns an output whenever validation
\* succeeds or allow_invalid is set.
C32_GetRulesValidatesFirst ==
    lastOp.op = "getRules" =>
        /\ EventPos(events, Element, "validate") > 0
        /\ \A i \in 1..Len(events) :
              events[i].type = "getRules" => i > EventPos(events, Element, "validate")
        /\ (C32_Failure /\ ~io.allow_invalid) =>
              /\ lastOp.res = "null"
              /\ EventPos(events, Element, "getRules") = 0
        /\ (io.valid \/ io.allow_invalid) => lastOp.res = "object"

\* ---- C33 ----
\* C33: a validation error stored on a node's error field is cleared by the
\* next successful mutation of the field it depends on: after a Rule with a
\* non-null error has its filter changed, or a Group its condition, the
\* node's error is null.
C33_ErrorClearedOnMutation ==
    [][ \A n \in Nodes :
          ( /\ lastOp'.op \in {"changeFilter", "changeCondition"}
            /\ lastOp'.node = n
            /\ lastOp'.err = ""
            /\ error[n] = "no_filter"
            /\ filter'[n] # filter[n] \/ condition'[n] # condition[n] )
          => error'[n] = "null" ]_vars

\* ---- C34 ----
\* C34: whenever a Rule's filter changes (to a different filter, or from a
\* filter to none), the rule's data is undefined afterwards; when the filter
\* is set again to the same filter the data is kept.
C34_DataClearedOnFilterChange ==
    [][ \A r \in Nodes :
          /\ ( /\ lastOp'.op = "changeFilter"
               /\ lastOp'.node = r
               /\ lastOp'.err = ""
               /\ filter[r] # "null" )
             => IF filter'[r] # filter[r]
                THEN data'[r] = Undefined
                ELSE data'[r] = data[r]
          /\ ( /\ lastOp'.op = "updateRuleFilter"
               /\ lastOp'.node = r
               /\ io'.prev # "null" )
             => /\ lastOp'.err = ""
                /\ IF io'.prev # filter[r]
                   THEN data'[r] = Undefined
                   ELSE data'[r] = data[r] ]_vars

\* ---- C35 ----
\* C35: after node.moveAtEnd(target) on a non-root node, the node is the
\* last child of target, both when target is the node's current parent and
\* when target is a different, non-empty group.
C35_MoveAtEndIsLast ==
    [][ \A n \in Nodes, t \in Nodes :
          ( /\ lastOp'.op = "moveAtEnd"
            /\ lastOp'.node = n
            /\ lastOp'.target = t
            /\ ~isRoot(Cur, n)
            /\ parent[n] # Null
            /\ t = parent[n] \/ rules[t] # <<>> )
          => /\ lastOp'.err = ""
             /\ rules'[t] # <<>>
             /\ rules'[t][Len(rules'[t])] = n ]_vars

\* ---- C36 ----
\* C36: during one emit, every listener that was registered for the event
\* when emit started and that no listener unsubscribes is invoked exactly
\* once, even when a listener calls off() (on itself or on an earlier
\* listener) while the event is being delivered.
C36_EmitDespiteOff ==
    [][ emOp'.op = "emit_off" =>
          LET before == listeners[emOp'.event]
              called == [i \in 1..Len(calls') |-> calls'[i].listener]
          IN \A l \in Listeners :
                ( /\ Occurrences(before, l) = 1
                  /\ \A m \in SeqSet(before) : emOp'.does[m] # l )
                => Occurrences(called, l) = 1 ]_vars

\* ---- C37 ----
\* C37: a callback registered with once(type, cb) is invoked at most once
\* over any sequence of events of that type, including an event of the same
\* type triggered from inside cb itself.
C37_OnceAtMostOnce ==
    \A i \in 1..Len(el.count) : el.count[i] <= 1

\* ---- C38 ----
\* C38: after a reset() that is not rejected, the root is the same Group as
\* before, all its former descendants have been dropped (whatever their
\* no_delete flags), its data is undefined, its flags equal the default
\* group flags, its condition is the default condition, and it has exactly
\* one child, a new Rule; the notifications occur in the order beforeReset,
\* the drops, afterReset, rulesChanged.
C38_ResetRebuildsRoot ==
    [][ (lastOp'.op = "reset" /\ ~lastOp'.rejected) =>
          /\ lastOp'.err = ""
          /\ root # Null
          /\ root' = root
          /\ \A n \in Subtree(root) \ {root} :
                /\ parent'[n] = Null
                /\ DropPos(events', n) > 1
                /\ DropPos(events', n) < Len(events') - 1
          /\ data'[root] = Undefined
          /\ flags'[root] = default_group_flags
          /\ condition'[root] = default_condition
          /\ Len(rules'[root]) = 1
          /\ kind[rules'[root][1]] = "none"
          /\ kind'[rules'[root][1]] = "rule"
          /\ events'[1].type = "beforeReset"
          /\ events'[Len(events') - 1].type = "afterReset"
          /\ events'[Len(events')].type = "rulesChanged" ]_vars

\* ---- C39 ----
\* C39: clearErrors(node) sets error to null on the node and on every node
\* of its subtree at any depth (default subtree: the whole tree from the
\* root), completes without raising for any tree shape, and changes no
\* other field; validate() starts by clearing all errors this way.
C39_ClearErrors ==
    [][ /\ lastOp'.op = "clearErrors" =>
              /\ lastOp'.err = ""
              /\ UNCHANGED <<kind, parent, level, rules, flags, data, condition, filter>>
              /\ \A m \in Nodes :
                    IF lastOp'.node # Null /\ m \in Subtree(lastOp'.node)
                    THEN error'[m] = "null"
                    ELSE error'[m] = error[m]
        /\ (lastOp'.op = "validate" /\ kind[1] = "group") =>
              \A m \in Subtree(1) : error'[m] = "null" ]_vars

\* ---- C40 ----
\* the notifications of the four operations and rulesChanged, in the order
\* of their publication
C40_Types(evs) ==
    LET sel == SelectSeq(evs, LAMBDA e :
                   e.on = Element /\
                   e.type \in {"beforeAddRule", "afterAddRule", "beforeAddGroup",
                               "afterAddGroup", "beforeDeleteRule", "afterDeleteRule",
                               "beforeDeleteGroup", "afterDeleteGroup", "rulesChanged"})
    IN [i \in 1..Len(sel) |-> sel[i].type]

\* C40: every successful addRule, addGroup, deleteRule and deleteGroup
\* publishes its notifications in the order before-event, state mutation,
\* after-event, rulesChanged, with exactly one rulesChanged per structural
\* change (addGroup with a default rule: beforeAddGroup, afterAddGroup,
\* rulesChanged, beforeAddRule, afterAddRule, rulesChanged); a rejected
\* operation publishes only its before-event.
C40_NotificationOrder ==
    /\ (lastOp.op = "addRule" /\ lastOp.rejected) =>
          C40_Types(events) = <<"beforeAddRule">> /\ Len(events) = 1
    /\ (lastOp.op = "addRule" /\ lastOp.res = "node") =>
          /\ C40_Types(events) = <<"beforeAddRule", "afterAddRule", "rulesChanged">>
          /\ EventPos(events, lastOp.target, "add") > EventPos(events, Element, "beforeAddRule")
          /\ EventPos(events, lastOp.target, "add") < EventPos(events, Element, "afterAddRule")
          /\ events[EventPos(events, lastOp.target, "add")].node = lastOp.ret
    /\ (lastOp.op = "addGroup" /\ lastOp.rejected) =>
          C40_Types(events) = <<"beforeAddGroup">> /\ Len(events) = 1
    /\ (lastOp.op = "addGroup" /\ lastOp.res = "node") =>
          /\ events[EventPos(events, Element, "afterAddGroup")].node = lastOp.ret
          /\ events[EventPos(events, Element, "afterAddGroup")].par = lastOp.target
          /\ IF rules[lastOp.ret] # <<>>
             THEN C40_Types(events) = <<"beforeAddGroup", "afterAddGroup", "rulesChanged",
                                        "beforeAddRule", "afterAddRule", "rulesChanged">>
             ELSE C40_Types(events) \in
                     {<<"beforeAddGroup", "afterAddGroup", "rulesChanged">>,
                      <<"beforeAddGroup", "afterAddGroup", "rulesChanged", "beforeAddRule">>}
    /\ (lastOp.op = "deleteRule" /\ lastOp.rejected) =>
          C40_Types(events) = <<"beforeDeleteRule">> /\ Len(events) = 1
    /\ (lastOp.op = "deleteRule" /\ lastOp.res = "true") =>
          /\ C40_Types(events) = <<"beforeDeleteRule", "afterDeleteRule", "rulesChanged">>
          /\ EventPos(events, lastOp.node, "drop") > EventPos(events, Element, "beforeDeleteRule")
          /\ EventPos(events, lastOp.node, "drop") < EventPos(events, Element, "afterDeleteRule")
    /\ (lastOp.op = "deleteGroup" /\ lastOp.rejected) =>
          C40_Types(events) = <<"beforeDeleteGroup">> /\ Len(events) = 1
    /\ (lastOp.op = "deleteGroup" /\ lastOp.res = "true") =>
          /\ C40_Types(events) = <<"beforeDeleteGroup", "afterDeleteGroup", "rulesChanged">>
          /\ EventPos(events, lastOp.node, "drop") > EventPos(events, Element, "beforeDeleteGroup")
          /\ EventPos(events, lastOp.node, "drop") < EventPos(events, Element, "afterDeleteGroup")

\* addGroup has added a group with data and its default rule
C40_Witness ==
    /\ lastOp.op = "addGroup"
    /\ lastOp.res = "node"
    /\ data[lastOp.ret] = "d"
    /\ Len(rules[lastOp.ret]) = 1
    /\ C40_Types(events) = <<"beforeAddGroup", "afterAddGroup", "rulesChanged",
                              "beforeAddRule", "afterAddRule", "rulesChanged">>

====
